---- MODULE Spec2Model ----
(***************************************************************************)
(* Client cache consistency engine: data-shape strategies, the two cache   *)
(* managers (OptimisticCacheManager, EntityCacheManager) over a normalized *)
(* object store, the refresh callback and the cross-tab handshake.         *)
(***************************************************************************)
EXTENDS Integers, Sequences, FiniteSets, TLC

\* ------------------------------------------------------------------ bounds
MaxLen == 2
MaxTotal == 3
MaxOps == 3
MaxPending == 2
MaxRefresh == 2
MaxMutations == 1
MaxWrites == 1
MaxMessages == 1
MaxEvents == 4
MaxManagers == 3

\* ------------------------------------------------------------ value domain
\* Identity values a Remove may carry (string | number).  JavaScript numbers
\* and strings are never === to each other, so each value gets its own tag.
IdZero == "num:0"
IdEmpty == "str:"
IdA == "str:a"
Ids == {IdZero, IdEmpty, IdA}
Titles == {"t1", "t2"}
Undefined == "<undefined>"

\* JavaScript truthiness of a string | number | undefined value.
Truthy(v) == v \notin {IdZero, IdEmpty, "", Undefined}

Items == [id : Ids, title : Titles]
NoItem == [id |-> Undefined, title |-> Undefined]
NoItems == <<NoItem>>

START == "start"
END == "end"

PAGINATED == "paginated"
SIMPLE_LIST == "simpleList"
ARRAY == "array"
Shapes == {PAGINATED, SIMPLE_LIST, ARRAY}

ADD == "add"
UPDATE == "update"
REMOVE == "remove"
REPLACE == "replace"
UPSERT == "upsert"
OpTypes == {ADD, UPDATE, REMOVE, REPLACE, UPSERT}

\* A denormalized query value.  PaginatedData carries data and pagination,
\* SimpleListData carries data and extra fields, a raw array carries data only;
\* the fields a shape does not have hold NoPagination / NoExtra.
NoPagination == [page |-> 0, limit |-> 0, total |-> 0, totalPages |-> 0]
NoExtra == "<none>"
Null == [shape |-> "null", data |-> <<>>, pagination |-> NoPagination, extra |-> NoExtra]

Max(a, b) == IF a >= b THEN a ELSE b

\* A default parameter value (position = START) applies when the argument is
\* undefined.
DefaultStart(position) == IF position = Undefined THEN START ELSE position

\* Array.prototype.map / filter / findIndex over the identity field.
MapReplace(data, item, idField) ==
    [i \in 1..Len(data) |->
        IF data[i][idField] = item[idField] THEN item ELSE data[i]]

FilterOut(data, id, idField) == SelectSeq(data, LAMBDA x : x[idField] # id)

FindIndex(data, item, idField) ==
    IF \E i \in 1..Len(data) : data[i][idField] = item[idField]
    THEN (CHOOSE i \in 1..Len(data) :
             /\ data[i][idField] = item[idField]
             /\ \A j \in 1..(i - 1) : data[j][idField] # item[idField]) - 1
    ELSE -1

\* ------------------------------------------- entityCacheManager strategies
\* Faulty variant: add whose omitted position means the end.
PaginatedStrategy_add_defaultEnd(existingData, item, position) ==
    LET newData == IF position = START THEN <<item>> \o existingData.data
                   ELSE existingData.data \o <<item>>
    IN [existingData EXCEPT
          !.data = newData,
          !.pagination = [existingData.pagination EXCEPT
                            !.total = existingData.pagination.total + 1]]

PaginatedStrategy_add(existingData, item, position) ==
    LET newData == IF DefaultStart(position) = START THEN <<item>> \o existingData.data
                   ELSE existingData.data \o <<item>>
    IN [existingData EXCEPT
          !.data = newData,
          !.pagination = [existingData.pagination EXCEPT
                            !.total = existingData.pagination.total + 1]]

\* Faulty variant: update that appends the item when no element matches.
PaginatedStrategy_update_appendMissing(existingData, item, idField) ==
    IF FindIndex(existingData.data, item, idField) >= 0
    THEN [existingData EXCEPT !.data = MapReplace(existingData.data, item, idField)]
    ELSE [existingData EXCEPT !.data = existingData.data \o <<item>>]

PaginatedStrategy_update(existingData, item, idField) ==
    [existingData EXCEPT !.data = MapReplace(existingData.data, item, idField)]

\* Faulty variant: remove that decrements total only when the identity is present.
PaginatedStrategy_remove_ifPresent(existingData, id, idField) ==
    [existingData EXCEPT
       !.data = FilterOut(existingData.data, id, idField),
       !.pagination = [existingData.pagination EXCEPT
                         !.total = IF \E n \in 1..Len(existingData.data) :
                                         existingData.data[n][idField] = id
                                    THEN Max(0, existingData.pagination.total - 1)
                                    ELSE existingData.pagination.total]]

PaginatedStrategy_remove(existingData, id, idField) ==
    [existingData EXCEPT
       !.data = FilterOut(existingData.data, id, idField),
       !.pagination = [existingData.pagination EXCEPT
                         !.total = Max(0, existingData.pagination.total - 1)]]

\* Faulty variant: replace that recomputes totalPages from the new total.
PaginatedStrategy_replace_recomputesPages(existingData, items) ==
    [existingData EXCEPT
       !.data = items,
       !.pagination = [existingData.pagination EXCEPT
                         !.total = Len(items),
                         !.totalPages = (Len(items) + existingData.pagination.limit - 1)
                                           \div existingData.pagination.limit]]

\* Faulty variant: replace that leaves total as it was.
PaginatedStrategy_replace_keepTotal(existingData, items) ==
    [existingData EXCEPT !.data = items]

PaginatedStrategy_replace(existingData, items) ==
    [existingData EXCEPT
       !.data = items,
       !.pagination = [existingData.pagination EXCEPT !.total = Len(items)]]

\* Faulty variant: upsert without the identity lookup.
PaginatedStrategy_upsert_alwaysAdd(existingData, item, idField) ==
    PaginatedStrategy_add(existingData, item, START)

PaginatedStrategy_upsert(existingData, item, idField) ==
    IF FindIndex(existingData.data, item, idField) >= 0
    THEN PaginatedStrategy_update(existingData, item, idField)
    ELSE PaginatedStrategy_add(existingData, item, START)

SimpleListStrategy_add(existingData, item, position) ==
    LET newData == IF DefaultStart(position) = START THEN <<item>> \o existingData.data
                   ELSE existingData.data \o <<item>>
    IN [existingData EXCEPT !.data = newData]

SimpleListStrategy_update(existingData, item, idField) ==
    [existingData EXCEPT !.data = MapReplace(existingData.data, item, idField)]

\* Faulty variant: remove that drops only the first matching element.
SimpleListStrategy_remove_firstOnly(existingData, id, idField) ==
    LET idx == FindIndex(existingData.data, [id |-> id], idField) + 1
    IN IF idx = 0 THEN existingData
       ELSE [existingData EXCEPT
               !.data = SubSeq(existingData.data, 1, idx - 1)
                        \o SubSeq(existingData.data, idx + 1, Len(existingData.data))]

SimpleListStrategy_remove(existingData, id, idField) ==
    [existingData EXCEPT !.data = FilterOut(existingData.data, id, idField)]

SimpleListStrategy_replace(existingData, items) ==
    [existingData EXCEPT !.data = items]

\* Faulty variant: upsert without the identity lookup.
SimpleListStrategy_upsert_alwaysAdd(existingData, item, idField) ==
    SimpleListStrategy_add(existingData, item, START)

SimpleListStrategy_upsert(existingData, item, idField) ==
    IF FindIndex(existingData.data, item, idField) >= 0
    THEN SimpleListStrategy_update(existingData, item, idField)
    ELSE SimpleListStrategy_add(existingData, item, START)

ArrayStrategy_add(existingData, item, position) ==
    [existingData EXCEPT
       !.data = IF DefaultStart(position) = START THEN <<item>> \o existingData.data
                ELSE existingData.data \o <<item>>]

ArrayStrategy_update(existingData, item, idField) ==
    [existingData EXCEPT !.data = MapReplace(existingData.data, item, idField)]

ArrayStrategy_remove(existingData, id, idField) ==
    [existingData EXCEPT !.data = FilterOut(existingData.data, id, idField)]

ArrayStrategy_replace(existingData, items) ==
    [existingData EXCEPT !.data = items]

ArrayStrategy_upsert(existingData, item, idField) ==
    IF FindIndex(existingData.data, item, idField) >= 0
    THEN ArrayStrategy_update(existingData, item, idField)
    ELSE ArrayStrategy_add(existingData, item, START)

\* ------------------------------------------------- cacheManager strategies
CM_PaginatedStrategy_add(existingData, item, position) ==
    LET newData == IF DefaultStart(position) = START THEN <<item>> \o existingData.data
                   ELSE existingData.data \o <<item>>
    IN [existingData EXCEPT
          !.data = newData,
          !.pagination = [existingData.pagination EXCEPT
                            !.total = existingData.pagination.total + 1]]

CM_PaginatedStrategy_update(existingData, item, idField) ==
    [existingData EXCEPT !.data = MapReplace(existingData.data, item, idField)]

CM_PaginatedStrategy_remove(existingData, id, idField) ==
    [existingData EXCEPT
       !.data = FilterOut(existingData.data, id, idField),
       !.pagination = [existingData.pagination EXCEPT
                         !.total = Max(0, existingData.pagination.total - 1)]]

CM_PaginatedStrategy_replace(existingData, items) ==
    [existingData EXCEPT
       !.data = items,
       !.pagination = [existingData.pagination EXCEPT !.total = Len(items)]]

\* Faulty variant: upsert whose add fallback inserts at the end.
CM_PaginatedStrategy_upsert_atEnd(existingData, item, idField) ==
    IF FindIndex(existingData.data, item, idField) >= 0
    THEN CM_PaginatedStrategy_update(existingData, item, idField)
    ELSE CM_PaginatedStrategy_add(existingData, item, END)

CM_PaginatedStrategy_upsert(existingData, item, idField) ==
    IF FindIndex(existingData.data, item, idField) >= 0
    THEN CM_PaginatedStrategy_update(existingData, item, idField)
    ELSE CM_PaginatedStrategy_add(existingData, item, START)

CM_SimpleListStrategy_add(existingData, item, position) ==
    LET newData == IF DefaultStart(position) = START THEN <<item>> \o existingData.data
                   ELSE existingData.data \o <<item>>
    IN [existingData EXCEPT !.data = newData]

CM_SimpleListStrategy_update(existingData, item, idField) ==
    [existingData EXCEPT !.data = MapReplace(existingData.data, item, idField)]

CM_SimpleListStrategy_remove(existingData, id, idField) ==
    [existingData EXCEPT !.data = FilterOut(existingData.data, id, idField)]

CM_SimpleListStrategy_replace(existingData, items) ==
    [existingData EXCEPT !.data = items]

CM_SimpleListStrategy_upsert(existingData, item, idField) ==
    IF FindIndex(existingData.data, item, idField) >= 0
    THEN CM_SimpleListStrategy_update(existingData, item, idField)
    ELSE CM_SimpleListStrategy_add(existingData, item, START)

CM_ArrayStrategy_add(existingData, item, position) ==
    [existingData EXCEPT
       !.data = IF DefaultStart(position) = START THEN <<item>> \o existingData.data
                ELSE existingData.data \o <<item>>]

CM_ArrayStrategy_update(existingData, item, idField) ==
    [existingData EXCEPT !.data = MapReplace(existingData.data, item, idField)]

CM_ArrayStrategy_remove(existingData, id, idField) ==
    [existingData EXCEPT !.data = FilterOut(existingData.data, id, idField)]

CM_ArrayStrategy_replace(existingData, items) ==
    [existingData EXCEPT !.data = items]

CM_ArrayStrategy_upsert(existingData, item, idField) ==
    IF FindIndex(existingData.data, item, idField) >= 0
    THEN CM_ArrayStrategy_update(existingData, item, idField)
    ELSE CM_ArrayStrategy_add(existingData, item, START)

\* ------------------------------------------------- normalized object store
\* The store is the external normalized cache.  root[q] is the entry written
\* for query q: the result key, the shape's own fields and the list as
\* references; recs[i] is the normalized record of type Todo with identity i.
Queries == {"GetTodos", "GetArchived"}
TODO == "Todo"
NoRec == "<absent>"
NoCacheId == <<>>
NullRoot == [rk |-> Undefined, shape |-> "null", refs |-> <<>>,
             pagination |-> NoPagination, extra |-> NoExtra]

\* cache.identify({__typename, [idField]: id}): the default data id is
\* `${__typename}:${id}` and is undefined when the object has no id field.
Identify(typename, idField, id) ==
    IF idField = "id" /\ id # Undefined THEN <<typename, id>> ELSE NoCacheId

\* cache.evict({id}): the record is dropped; entries that refer to it keep a
\* dangling reference.
Evict(s, cacheId) ==
    IF cacheId[1] = TODO
    THEN [s EXCEPT !.recs = [s.recs EXCEPT ![cacheId[2]] = NoRec]]
    ELSE s

\* readQuery: null when nothing was written for the query; list elements are
\* resolved through their references and dangling references are left out.
ReadQuery(s, q) ==
    LET e == s.root[q]
        live == SelectSeq(e.refs, LAMBDA i : s.recs[i] # NoRec)
    IN IF e = NullRoot THEN [rk |-> Undefined, v |-> Null]
       ELSE [rk |-> e.rk,
             v |-> [shape |-> e.shape,
                    data |-> [n \in 1..Len(live) |->
                                [id |-> live[n], title |-> s.recs[live[n]]]],
                    pagination |-> e.pagination,
                    extra |-> e.extra]]

\* writeQuery: every list element is merged into its normalized record (a later
\* element of the same identity overwrites an earlier one) and the list field
\* is overwritten wholesale with the references.
WriteQuery(s, q, cacheData) ==
    LET d == cacheData.v.data
        Last(i) == CHOOSE n \in 1..Len(d) :
                      d[n].id = i /\ \A m \in (n + 1)..Len(d) : d[m].id # i
    IN [root |-> [s.root EXCEPT ![q] =
                    [rk |-> cacheData.rk, shape |-> cacheData.v.shape,
                     refs |-> [n \in 1..Len(d) |-> d[n].id],
                     pagination |-> cacheData.v.pagination,
                     extra |-> cacheData.v.extra]],
        recs |-> [i \in Ids |->
                    IF \E n \in 1..Len(d) : d[n].id = i
                    THEN d[Last(i)].title ELSE s.recs[i]]]

\* Store primitives that may throw during one call.
Failures == {"none", "readQuery", "writeQuery", "identify", "evict"}

\* The value of a missing property and the JavaScript test `!value`.
UndefinedValue == [shape |-> "undefined", data |-> <<>>,
                   pagination |-> NoPagination, extra |-> NoExtra]
IsFalsyValue(v) == v = Null \/ v = UndefinedValue

HasResultKey(config) ==
    config.queryResultKey # Undefined /\ config.queryResultKey # ""

\* ------------------------------------------------------ EntityCacheManager
EntityKeys == {"todos"}
NoConfig == [query |-> Undefined, queryResultKey |-> Undefined,
             dataStructure |-> Undefined, entityName |-> Undefined,
             idField |-> Undefined]
NoStrategy == Undefined

\* The strategy instance bound to a key, dispatched by its class.
Strategy_add(strategy, existingData, item, position) ==
    CASE strategy = PAGINATED -> PaginatedStrategy_add(existingData, item, position)
      [] strategy = SIMPLE_LIST -> SimpleListStrategy_add(existingData, item, position)
      [] OTHER -> ArrayStrategy_add(existingData, item, position)

Strategy_update(strategy, existingData, item, idField) ==
    CASE strategy = PAGINATED -> PaginatedStrategy_update(existingData, item, idField)
      [] strategy = SIMPLE_LIST -> SimpleListStrategy_update(existingData, item, idField)
      [] OTHER -> ArrayStrategy_update(existingData, item, idField)

Strategy_remove(strategy, existingData, id, idField) ==
    CASE strategy = PAGINATED -> PaginatedStrategy_remove(existingData, id, idField)
      [] strategy = SIMPLE_LIST -> SimpleListStrategy_remove(existingData, id, idField)
      [] OTHER -> ArrayStrategy_remove(existingData, id, idField)

Strategy_replace(strategy, existingData, items) ==
    CASE strategy = PAGINATED -> PaginatedStrategy_replace(existingData, items)
      [] strategy = SIMPLE_LIST -> SimpleListStrategy_replace(existingData, items)
      [] OTHER -> ArrayStrategy_replace(existingData, items)

Strategy_upsert(strategy, existingData, item, idField) ==
    CASE strategy = PAGINATED -> PaginatedStrategy_upsert(existingData, item, idField)
      [] strategy = SIMPLE_LIST -> SimpleListStrategy_upsert(existingData, item, idField)
      [] OTHER -> ArrayStrategy_upsert(existingData, item, idField)

\* Faulty variant: a query with nothing cached reads as an empty value of the
\* configured shape.
EntityCacheManager_readCacheData_emptyOnMiss(s, config, fail) ==
    LET cacheData == ReadQuery(s, config.query)
    IN IF fail = "readQuery" THEN Null
       ELSE IF cacheData.v = Null
       THEN [shape |-> config.dataStructure, data |-> <<>>,
             pagination |-> IF config.dataStructure = PAGINATED
                            THEN [page |-> 1, limit |-> 50, total |-> 0,
                                  totalPages |-> 1]
                            ELSE NoPagination,
             extra |-> IF config.dataStructure = SIMPLE_LIST
                       THEN "extra" ELSE NoExtra]
       ELSE IF HasResultKey(config)
            THEN (IF cacheData.rk = config.queryResultKey
                  THEN cacheData.v ELSE UndefinedValue)
            ELSE (IF cacheData.rk = Undefined
                  THEN cacheData.v ELSE UndefinedValue)

\* readCacheData: null when readQuery throws or returns nothing, else the
\* value under queryResultKey (or the whole object when no key is configured).
EntityCacheManager_readCacheData(s, config, fail) ==
    LET cacheData == ReadQuery(s, config.query)
    IN IF fail = "readQuery" THEN Null
       ELSE IF cacheData.v = Null THEN Null
       ELSE IF HasResultKey(config)
            THEN (IF cacheData.rk = config.queryResultKey
                  THEN cacheData.v ELSE UndefinedValue)
            ELSE (IF cacheData.rk = Undefined
                  THEN cacheData.v ELSE UndefinedValue)

\* Faulty variant: the write lands on another query than the configured one.
EntityCacheManager_writeCacheData_otherQuery(s, config, data) ==
    WriteQuery(s, CHOOSE q \in Queries : q # config.query,
               [rk |-> IF HasResultKey(config) THEN config.queryResultKey
                       ELSE Undefined,
                v |-> data])

EntityCacheManager_writeCacheData(s, config, data) ==
    WriteQuery(s, config.query,
               [rk |-> IF HasResultKey(config) THEN config.queryResultKey
                       ELSE Undefined,
                v |-> data])

\* Faulty variant: the switch without the test of a Remove's id.
EntityCacheManager_transform_removeUnchecked(strategy, existingData, operation, idField) ==
    CASE operation.type = ADD /\ operation.data # NoItem ->
           [ok |-> TRUE,
            data |-> Strategy_add(strategy, existingData, operation.data,
                                  operation.position)]
      [] operation.type = UPDATE /\ operation.data # NoItem ->
           [ok |-> TRUE,
            data |-> Strategy_update(strategy, existingData, operation.data, idField)]
      [] operation.type = REMOVE ->
           [ok |-> TRUE,
            data |-> Strategy_remove(strategy, existingData, operation.id, idField)]
      [] operation.type = REPLACE /\ operation.items # NoItems ->
           [ok |-> TRUE,
            data |-> Strategy_replace(strategy, existingData, operation.items)]
      [] operation.type = UPSERT /\ operation.data # NoItem ->
           [ok |-> TRUE,
            data |-> Strategy_upsert(strategy, existingData, operation.data, idField)]
      [] OTHER -> [ok |-> FALSE, data |-> existingData]

\* The switch over operation.type: the transform, or "rejected" when the
\* payload the type needs is missing or the type is unknown.
EntityCacheManager_transform(strategy, existingData, operation, idField) ==
    CASE operation.type = ADD /\ operation.data # NoItem ->
           [ok |-> TRUE,
            data |-> Strategy_add(strategy, existingData, operation.data,
                                  operation.position)]
      [] operation.type = UPDATE /\ operation.data # NoItem ->
           [ok |-> TRUE,
            data |-> Strategy_update(strategy, existingData, operation.data, idField)]
      [] operation.type = REMOVE /\ operation.id # Undefined ->
           [ok |-> TRUE,
            data |-> Strategy_remove(strategy, existingData, operation.id, idField)]
      [] operation.type = REPLACE /\ operation.items # NoItems ->
           [ok |-> TRUE,
            data |-> Strategy_replace(strategy, existingData, operation.items)]
      [] operation.type = UPSERT /\ operation.data # NoItem ->
           [ok |-> TRUE,
            data |-> Strategy_upsert(strategy, existingData, operation.data, idField)]
      [] OTHER -> [ok |-> FALSE, data |-> existingData]

\* The eviction step after the write: [threw, store, calls], calls being the
\* store primitives the step called.
EntityCacheManager_evictStep(s, config, operation, idField, fail) ==
    IF operation.type = REMOVE /\ Truthy(config.entityName) /\ Truthy(operation.id)
    THEN IF fail = "identify"
         THEN [threw |-> TRUE, store |-> s, calls |-> {"identify"}]
         ELSE LET cacheId == Identify(config.entityName, idField, operation.id)
              IN IF cacheId # NoCacheId
                 THEN (IF fail = "evict"
                       THEN [threw |-> TRUE, store |-> s,
                             calls |-> {"identify", "evict"}]
                       ELSE [threw |-> FALSE, store |-> Evict(s, cacheId),
                             calls |-> {"identify", "evict"}])
                 ELSE [threw |-> FALSE, store |-> s, calls |-> {"identify"}]
    ELSE [threw |-> FALSE, store |-> s, calls |-> {}]

\* What a call of a manager method comes to: ok is the boolean it resolved to,
\* store the store it left, read the value it read and written the value it
\* handed to writeQuery (Null when it wrote nothing), calls the store
\* primitives it called, threw the one that threw ("none" when none did) and
\* raised whether that exception left the method.
Outcome(ok, s, read, written, calls, threw, tryBlock) ==
    [ok |-> ok /\ threw = "none", store |-> s, read |-> read, written |-> written,
     calls |-> calls, threw |-> threw,
     raised |-> threw # "none" /\ threw \notin tryBlock]

\* Faulty variant: the try block ends after the write.
EntityCacheManager_tryBlock_untilWrite == {"readQuery", "writeQuery"}

\* The store primitives executeOperation calls inside its try block; the catch
\* turns what any of them throws into false.
EntityCacheManager_tryBlock == {"readQuery", "writeQuery", "identify", "evict"}

\* executeOperation from its try block on, for a registered key.
EntityCacheManager_executeRegistered(config, strategy, s, operation, fail) ==
    LET existingData == EntityCacheManager_readCacheData(s, config, fail)
        idField == IF config.idField = Undefined THEN "id" ELSE config.idField
        t == EntityCacheManager_transform(strategy, existingData, operation, idField)
        s1 == EntityCacheManager_writeCacheData(s, config, t.data)
        e == EntityCacheManager_evictStep(s1, config, operation, idField, fail)
    IN IF IsFalsyValue(existingData) \/ ~t.ok
       THEN Outcome(FALSE, s, existingData, Null, {"readQuery"},
                    IF fail = "readQuery" THEN fail ELSE "none",
                    EntityCacheManager_tryBlock)
       ELSE IF fail = "writeQuery"
       THEN Outcome(FALSE, s, existingData, Null, {"readQuery", "writeQuery"},
                    fail, EntityCacheManager_tryBlock)
       ELSE Outcome(TRUE, e.store, existingData, t.data,
                    {"readQuery", "writeQuery"} \cup e.calls,
                    IF e.threw THEN fail ELSE "none",
                    EntityCacheManager_tryBlock)

\* Faulty variant: the store is read before the registration is tested.
EntityCacheManager_executeOperation_readFirst(ents, strats, s, operation, fail) ==
    LET config == ents[operation.entityKey]
        strategy == strats[operation.entityKey]
    IN IF config = NoConfig \/ strategy = NoStrategy
       THEN Outcome(FALSE, s, Null, Null, {"readQuery"}, "none", {})
       ELSE EntityCacheManager_executeRegistered(config, strategy, s, operation,
                                                 fail)

\* executeOperation: false at once when the key has no config or no strategy.
EntityCacheManager_executeOperation(ents, strats, s, operation, fail) ==
    LET config == ents[operation.entityKey]
        strategy == strats[operation.entityKey]
    IN IF config = NoConfig \/ strategy = NoStrategy
       THEN Outcome(FALSE, s, Null, Null, {}, "none", {})
       ELSE EntityCacheManager_executeRegistered(config, strategy, s, operation,
                                                 fail)

\* Faulty variant: a strategy already bound to the key is kept.
EntityCacheManager_registerEntity_keepsStrategy(ents, strats, entityKey, config) ==
    [entities |-> [ents EXCEPT ![entityKey] = config],
     strategies |-> IF config.dataStructure \in Shapes /\ strats[entityKey] = NoStrategy
                    THEN [strats EXCEPT ![entityKey] = config.dataStructure]
                    ELSE strats,
     threw |-> config.dataStructure \notin Shapes]

\* registerEntity: the config is stored, then the strategy is chosen by
\* config.dataStructure and stored; a value that is none of the three throws
\* at the choice.  [entities, strategies, threw]
EntityCacheManager_registerEntity(ents, strats, entityKey, config) ==
    [entities |-> [ents EXCEPT ![entityKey] = config],
     strategies |-> IF config.dataStructure \in Shapes
                    THEN [strats EXCEPT ![entityKey] = config.dataStructure]
                    ELSE strats,
     threw |-> config.dataStructure \notin Shapes]

\* Faulty variant: a key with no config reads as undefined.
EntityCacheManager_getCachedData_undefinedOnMiss(ents, s, entityKey, fail) ==
    IF ents[entityKey] = NoConfig THEN UndefinedValue
    ELSE EntityCacheManager_readCacheData(s, ents[entityKey], fail)

EntityCacheManager_getCachedData(ents, s, entityKey, fail) ==
    IF ents[entityKey] = NoConfig THEN Null
    ELSE EntityCacheManager_readCacheData(s, ents[entityKey], fail)

\* -------------------------------------------------- OptimisticCacheManager
\* A manager is its constructor's result: [config, strategy, idField].
OptimisticCacheManager_new(config) ==
    [config |-> config,
     idField |-> IF config.idField = Undefined THEN "id" ELSE config.idField,
     strategy |-> config.dataStructure]

CacheStrategy_add(strategy, existingData, item, position) ==
    CASE strategy = PAGINATED -> CM_PaginatedStrategy_add(existingData, item, position)
      [] strategy = SIMPLE_LIST -> CM_SimpleListStrategy_add(existingData, item, position)
      [] OTHER -> CM_ArrayStrategy_add(existingData, item, position)

CacheStrategy_update(strategy, existingData, item, idField) ==
    CASE strategy = PAGINATED -> CM_PaginatedStrategy_update(existingData, item, idField)
      [] strategy = SIMPLE_LIST -> CM_SimpleListStrategy_update(existingData, item, idField)
      [] OTHER -> CM_ArrayStrategy_update(existingData, item, idField)

CacheStrategy_remove(strategy, existingData, id, idField) ==
    CASE strategy = PAGINATED -> CM_PaginatedStrategy_remove(existingData, id, idField)
      [] strategy = SIMPLE_LIST -> CM_SimpleListStrategy_remove(existingData, id, idField)
      [] OTHER -> CM_ArrayStrategy_remove(existingData, id, idField)

CacheStrategy_replace(strategy, existingData, items) ==
    CASE strategy = PAGINATED -> CM_PaginatedStrategy_replace(existingData, items)
      [] strategy = SIMPLE_LIST -> CM_SimpleListStrategy_replace(existingData, items)
      [] OTHER -> CM_ArrayStrategy_replace(existingData, items)

CacheStrategy_upsert(strategy, existingData, item, idField) ==
    CASE strategy = PAGINATED -> CM_PaginatedStrategy_upsert(existingData, item, idField)
      [] strategy = SIMPLE_LIST -> CM_SimpleListStrategy_upsert(existingData, item, idField)
      [] OTHER -> CM_ArrayStrategy_upsert(existingData, item, idField)

OptimisticCacheManager_readCacheData(s, m, fail) ==
    LET cacheData == ReadQuery(s, m.config.query)
    IN IF fail = "readQuery" THEN Null
       ELSE IF cacheData.v = Null THEN Null
       ELSE IF HasResultKey(m.config)
            THEN (IF cacheData.rk = m.config.queryResultKey
                  THEN cacheData.v ELSE UndefinedValue)
            ELSE (IF cacheData.rk = Undefined
                  THEN cacheData.v ELSE UndefinedValue)

OptimisticCacheManager_writeCacheData(s, m, data) ==
    WriteQuery(s, m.config.query,
               [rk |-> IF HasResultKey(m.config) THEN m.config.queryResultKey
                       ELSE Undefined,
                v |-> data])

OptimisticCacheManager_applyOperation(m, existingData, operation) ==
    CASE operation.type = ADD ->
           CacheStrategy_add(m.strategy, existingData, operation.data,
                             operation.position)
      [] operation.type = UPDATE ->
           CacheStrategy_update(m.strategy, existingData, operation.data, m.idField)
      [] operation.type = REMOVE ->
           CacheStrategy_remove(m.strategy, existingData, operation.id, m.idField)
      [] operation.type = REPLACE ->
           CacheStrategy_replace(m.strategy, existingData, operation.items)
      [] operation.type = UPSERT ->
           CacheStrategy_upsert(m.strategy, existingData, operation.data, m.idField)
      [] OTHER -> existingData

OptimisticCacheManager_evictStep(s, m, operation, fail) ==
    IF /\ operation.type = REMOVE
       /\ m.config.entityName # Undefined
       /\ m.config.entityName # ""
    THEN IF fail = "identify"
         THEN [threw |-> TRUE, store |-> s, calls |-> {"identify"}]
         ELSE LET cacheId == Identify(m.config.entityName, m.idField, operation.id)
              IN IF cacheId # NoCacheId
                 THEN (IF fail = "evict"
                       THEN [threw |-> TRUE, store |-> s,
                             calls |-> {"identify", "evict"}]
                       ELSE [threw |-> FALSE, store |-> Evict(s, cacheId),
                             calls |-> {"identify", "evict"}])
                 ELSE [threw |-> FALSE, store |-> s, calls |-> {"identify"}]
    ELSE [threw |-> FALSE, store |-> s, calls |-> {}]

\* The store primitives its executeOperation calls inside its try block.
OptimisticCacheManager_tryBlock == {"readQuery", "writeQuery", "identify", "evict"}

OptimisticCacheManager_executeOperation(m, s, operation, fail) ==
    LET existingData == OptimisticCacheManager_readCacheData(s, m, fail)
        updatedData == OptimisticCacheManager_applyOperation(m, existingData, operation)
        s1 == OptimisticCacheManager_writeCacheData(s, m, updatedData)
        e == OptimisticCacheManager_evictStep(s1, m, operation, fail)
    IN IF IsFalsyValue(existingData)
       THEN Outcome(FALSE, s, existingData, Null, {"readQuery"},
                    IF fail = "readQuery" THEN fail ELSE "none",
                    OptimisticCacheManager_tryBlock)
       ELSE IF fail = "writeQuery"
       THEN Outcome(FALSE, s, existingData, Null, {"readQuery", "writeQuery"},
                    fail, OptimisticCacheManager_tryBlock)
       ELSE Outcome(TRUE, e.store, existingData, updatedData,
                    {"readQuery", "writeQuery"} \cup e.calls,
                    IF e.threw THEN fail ELSE "none",
                    OptimisticCacheManager_tryBlock)

\* The store of a fresh InMemoryCache.
EmptyStore == [root |-> [q \in Queries |-> NullRoot], recs |-> [i \in Ids |-> NoRec]]

\* An operation record with no field set.
NoOp == [type |-> Undefined, entityKey |-> Undefined, data |-> NoItem,
         id |-> Undefined, items |-> NoItems, position |-> Undefined]

\* ------------------------------------------------------------------- state
VARIABLES
    store,          \* the tab's normalized object store
    entities,       \* EntityCacheManager.entities: key -> config
    strategies,     \* EntityCacheManager.strategies: key -> strategy
    cacheManager,   \* the OptimisticCacheManager built by useOptimisticCache
    lastMgr,        \* the manager whose executeOperation the last step ran
    lastRet,        \* the boolean that call resolved to
    applied,        \* the operation, when the call resolved to true
    lastCall,       \* what the caller of the last call saw and what it called
    tBase,          \* pagination.total when the current add/remove sequence began
    tAdds,          \* adds written since then
    tRemoves,       \* removes written since then
    tFloored,       \* those removes that found total already 0
    pending,        \* promises of invoked operations nobody has awaited yet
    prevStore,      \* the store as it was when the previous operation was invoked
    expected,       \* the value the invoked transforms give when applied in order
    rfIssued,       \* refresh(true) calls issued so far (they are numbered 1, 2, ..)
    rfInflight,     \* those whose network round-trip has not resolved yet
    rfResolved,     \* the resolved ones with their responses, in resolution order
    storeA,         \* the store of the tab that mutates (tab A); `store` is tab B's
    storage,        \* the value held under the persisted-cache storage key
    waitingForStorageRef,  \* tab B's consumer: TRUE is AwaitingPersist, FALSE is Idle
    mounted,        \* tab B's consumer has its listeners subscribed
    msgQ,           \* broadcast messages on their way to tab B
    evtQ,           \* storage events on their way to tab B
    aSeq,           \* confirmed mutations of tab A so far
    nWrites,        \* writes to storage so far
    nMessages,      \* messages posted by other senders so far
    lastHandled,    \* what tab B's handlers did with the event they last got
    heard,          \* the messages tab B's consumer got since it was last Idle
    stImpl,         \* the copy of the strategies last applied ("ecm" or "ocm")
    stIn,           \* the value a strategy function is applied to
    stOp,           \* the function and its arguments, as an operation
    stOut,          \* its result
    stAgain,        \* the result of applying it once more to its result
    delivered,      \* what tab B's consumer was handed, in order, with the
                    \* refresh calls each event made
    provider        \* the EntityCacheProvider instance: its props, ref, memo and
                    \* effect, and the registries of the managers it hands out

coreVars == <<store, entities, strategies, cacheManager>>
callVars == <<lastMgr, lastRet, applied, lastCall>>
totalVars == <<tBase, tAdds, tRemoves, tFloored>>
asyncVars == <<pending, prevStore, expected>>
refreshVars == <<rfIssued, rfInflight, rfResolved>>
strategyVars == <<stImpl, stIn, stOp, stOut, stAgain>>
handshakeVars == <<delivered>>
providerVars == <<provider>>
tabVars == <<storeA, storage, waitingForStorageRef, mounted, msgQ, evtQ, aSeq,
             nWrites, nMessages, lastHandled, heard>>
vars == <<store, entities, strategies, cacheManager, lastMgr, lastRet, applied,
          lastCall,
          tBase, tAdds, tRemoves, tFloored, pending, prevStore, expected,
          rfIssued, rfInflight, rfResolved,
          storeA, storage, waitingForStorageRef, mounted, msgQ, evtQ, aSeq,
          nWrites, nMessages, lastHandled, heard,
          stImpl, stIn, stOp, stOut, stAgain, delivered, provider>>

\* Variables the actions of Spec, SpecTotal and SpecAsync leave alone.
notMgrVars == <<totalVars, asyncVars, refreshVars, tabVars, strategyVars,
                handshakeVars, providerVars>>
notTotalVars == <<callVars, asyncVars, refreshVars, tabVars, strategyVars,
                  handshakeVars, providerVars>>
notAsyncVars == <<callVars, totalVars, refreshVars, tabVars, strategyVars,
                  handshakeVars, providerVars>>
notRefreshVars == <<entities, strategies, cacheManager, callVars, totalVars,
                    asyncVars, tabVars, strategyVars, handshakeVars, providerVars>>
notTabVars == <<entities, strategies, cacheManager, callVars, totalVars,
                asyncVars, refreshVars, strategyVars, handshakeVars, providerVars>>
notHandshakeVars == <<entities, strategies, cacheManager, callVars, totalVars,
                      asyncVars, refreshVars, strategyVars, providerVars>>
notStrategyVars == <<store, entities, strategies, cacheManager, callVars,
                     totalVars, asyncVars, refreshVars, tabVars, handshakeVars, providerVars>>
\* Their values where they are not in use.
TotalIdle == tBase = 0 /\ tAdds = 0 /\ tRemoves = 0 /\ tFloored = 0
NoCall == [surface |-> "none", key |-> Undefined, arg |-> Undefined,
           config |-> NoConfig, result |-> "none", value |-> Null, calls |-> {},
           threw |-> "none"]
CallIdle ==
    lastMgr = "none" /\ lastRet = FALSE /\ applied = NoOp /\ lastCall = NoCall
AsyncIdle == pending = 0 /\ prevStore = EmptyStore /\ expected = Null
RefreshIdle == rfIssued = 0 /\ rfInflight = {} /\ rfResolved = <<>>
NoSnapshot == [root |-> {}, ents |-> {}]
NoHandled == [kind |-> "none", mounted |-> FALSE, pre |-> FALSE, refreshed |-> 0,
              type |-> "", key |-> "", from |-> "", seq |-> 0,
              json |-> FALSE, src |-> Null]
HandshakeIdle == delivered = <<>>
NoProvider == "<unused>"
ProviderIdle == provider = NoProvider
StrategyIdle ==
    stImpl = "none" /\ stIn = Null /\ stOp = NoOp /\ stOut = Null /\ stAgain = Null
TabIdle ==
    /\ storeA = EmptyStore /\ storage = [kind |-> "null", snap |-> NoSnapshot]
    /\ waitingForStorageRef = FALSE /\ mounted = FALSE
    /\ msgQ = <<>> /\ evtQ = <<>> /\ aSeq = 0 /\ nWrites = 0 /\ nMessages = 0
    /\ lastHandled = NoHandled /\ heard = {}

\* ------------------------------------------------------------ input domain
GET_TODOS == "GetTodos"
TODOS == "todos"

\* The entities the manager operations carry: one with a falsy identity (0)
\* and one with a truthy identity ('a').
MgrItems == {it \in Items : it.title = "t1" /\ it.id \in {IdZero, IdA}}

\* Lists a Replace may carry.
ItemLists == UNION {[1..n -> MgrItems] : n \in 0..MaxLen}

\* The operations the exposed surface builds (addEntity .. replaceEntities,
\* addItem .. replaceItems).
Operations ==
    {[NoOp EXCEPT !.type = ADD, !.entityKey = k, !.data = d, !.position = p] :
        k \in EntityKeys, d \in MgrItems, p \in {START, END}}
    \cup {[NoOp EXCEPT !.type = ty, !.entityKey = k, !.data = d] :
        ty \in {UPDATE, UPSERT}, k \in EntityKeys, d \in MgrItems}
    \cup {[NoOp EXCEPT !.type = REMOVE, !.entityKey = k, !.id = i] :
        k \in EntityKeys, i \in Ids}
    \cup {[NoOp EXCEPT !.type = REPLACE, !.entityKey = k, !.items = l] :
        k \in EntityKeys, l \in ItemLists}

\* A failure is injected only into a primitive the call can reach.
Reaches(operation, fail) ==
    fail \in {"identify", "evict"} => operation.type = REMOVE

EntityNames == {"", TODO}

TodosConfig(shape, name) ==
    [query |-> GET_TODOS, queryResultKey |-> TODOS, dataStructure |-> shape,
     entityName |-> name, idField |-> Undefined]

InitialValue(shape, data, total) ==
    [shape |-> shape, data |-> data,
     pagination |-> IF shape = PAGINATED
                    THEN [page |-> 1, limit |-> 50, total |-> total, totalPages |-> 1]
                    ELSE NoPagination,
     extra |-> IF shape = SIMPLE_LIST THEN "extra" ELSE NoExtra]

\* The bounds keep lists and totals finite.
WithinBounds(v) == Len(v.data) <= MaxLen /\ v.pagination.total <= MaxTotal

\* ------------------------------------------------------------------ actions
\* The provider has created the registry, the component has registered its
\* entity key and built its OptimisticCacheManager from the same
\* configuration, and the first fetch of the query has filled the store.
Init ==
    \E shape \in Shapes, name \in EntityNames, total \in 0..1 :
       /\ store = WriteQuery(EmptyStore, GET_TODOS,
                    [rk |-> TODOS,
                     v |-> InitialValue(shape, <<>>,
                              IF shape = PAGINATED THEN total ELSE 0)])
       /\ entities = [k \in EntityKeys |-> TodosConfig(shape, name)]
       /\ strategies = [k \in EntityKeys |-> shape]
       /\ cacheManager = OptimisticCacheManager_new(TodosConfig(shape, name))
       /\ CallIdle
       /\ TotalIdle
       /\ AsyncIdle
       /\ RefreshIdle
       /\ StrategyIdle
       /\ HandshakeIdle /\ ProviderIdle
       /\ TabIdle

\* What the caller of a method sees: the method, what it got back ("raised"
\* when an exception reached it), and the store primitives the call used; key
\* is the entity key the call was for, arg its identity or flag argument and value the
\* data it returned or was answered with, where it has one.
Seen(surface, result, r) ==
    [surface |-> surface, key |-> Undefined, arg |-> Undefined,
     config |-> NoConfig, result |-> IF r.raised THEN "raised" ELSE result,
     value |-> Null, calls |-> r.calls, threw |-> r.threw]

BooleanResult(r) == IF r.ok THEN "true" ELSE "false"

\* registerEntity(entityKey, config) with a supported dataStructure: the hook
\* registers the configuration of its query on every mount.
RegisterEntity(entityKey, config) ==
    /\ entities' = [entities EXCEPT ![entityKey] = config]
    /\ strategies' = [strategies EXCEPT ![entityKey] = config.dataStructure]
    /\ lastMgr' = "none"
    /\ lastRet' = FALSE
    /\ applied' = NoOp
    /\ lastCall' = NoCall
    /\ UNCHANGED <<store, cacheManager, notMgrVars>>

\* Faulty variant: destroy() clears the configurations only.
Destroy_entitiesOnly ==
    /\ entities' = [k \in DOMAIN entities |-> NoConfig]
    /\ lastMgr' = "none"
    /\ lastRet' = FALSE
    /\ applied' = NoOp
    /\ lastCall' = [NoCall EXCEPT !.surface = "destroy", !.result = "void"]
    /\ UNCHANGED <<store, strategies, cacheManager, notMgrVars>>

\* destroy(): both maps are cleared.
Destroy ==
    /\ entities' = [k \in DOMAIN entities |-> NoConfig]
    /\ strategies' = [k \in DOMAIN strategies |-> NoStrategy]
    /\ lastMgr' = "none"
    /\ lastRet' = FALSE
    /\ applied' = NoOp
    /\ lastCall' = [NoCall EXCEPT !.surface = "destroy", !.result = "void"]
    /\ UNCHANGED <<store, cacheManager, notMgrVars>>

\* EntityCacheManager.executeOperation(operation), run to its return.
EcmExecute(operation, fail) ==
    /\ Reaches(operation, fail)
    /\ \E r \in {EntityCacheManager_executeOperation(entities, strategies, store,
                                                     operation, fail)} :
       /\ r.written # Null => WithinBounds(r.written)
       /\ store' = r.store
       /\ lastMgr' = "ecm"
       /\ lastRet' = r.ok
       /\ applied' = IF r.ok THEN operation ELSE NoOp
       /\ lastCall' = [Seen("executeOperation", BooleanResult(r), r)
                          EXCEPT !.key = operation.entityKey]
       /\ UNCHANGED <<entities, strategies, cacheManager, notMgrVars>>

\* OptimisticCacheManager.executeOperation(operation), run to its return.
OcmExecute(operation, fail) ==
    /\ Reaches(operation, fail)
    /\ \E r \in {OptimisticCacheManager_executeOperation(cacheManager, store,
                                                         operation, fail)} :
       /\ r.written # Null => WithinBounds(r.written)
       /\ store' = r.store
       /\ lastMgr' = "ocm"
       /\ lastRet' = r.ok
       /\ applied' = IF r.ok THEN operation ELSE NoOp
       /\ lastCall' = [Seen("executeOperation", BooleanResult(r), r)
                          EXCEPT !.key = operation.entityKey]
       /\ UNCHANGED <<entities, strategies, cacheManager, notMgrVars>>

Next ==
    \/ \E k \in EntityKeys :
          RegisterEntity(k, TodosConfig(cacheManager.config.dataStructure,
                                        cacheManager.config.entityName))
    \/ Destroy
    \/ \E op \in Operations, f \in Failures : EcmExecute(op, f)
    \/ \E op \in Operations, f \in Failures : OcmExecute(op, f)

Spec == Init /\ [][Next]_vars

\* ------------------------------------------------------------ observations
\* The denormalized value cached for the todos query, as the managers read it.
Cached(s) == ReadQuery(s, GET_TODOS).v

IdsOf(data) == {data[n].id : n \in 1..Len(data)}
NoDup(data) == \A m, n \in 1..Len(data) : data[m].id = data[n].id => m = n

\* The entity name the manager of the last call was configured with.
NameOf(mgr) ==
    IF mgr = "ocm" THEN cacheManager.config.entityName
    ELSE entities[TODOS].entityName

\* C1 (as claimed): a call that returns false has written nothing: the
\* denormalized query value and every normalized record are as before the call.
C1_FalseWritesNothing ==
    [][(lastMgr' # "none" /\ ~lastRet') =>
          (Cached(store') = Cached(store) /\ store'.recs = store.recs)]_vars

\* C3 (as claimed): the cached data never holds two elements of the same
\* identity, whatever operations are applied.
C3_NoDuplicateIdentities == NoDup(Cached(store).data)

\* An operation through which the caller itself brings a repeated identity:
\* an add of an identity the list already holds, or a replace by a list that
\* repeats one.
BringsDuplicate(operation, data) ==
    \/ operation.type = ADD /\ operation.data.id \in IdsOf(data)
    \/ operation.type = REPLACE /\ ~NoDup(operation.items)

\* C3 (amended): a duplicate-free list stays duplicate-free under update,
\* remove, upsert, add of an identity not yet in the list and replace by a
\* duplicate-free list.
C3_NoDuplicateUnlessBrought ==
    [][(NoDup(Cached(store).data) /\ ~BringsDuplicate(applied', Cached(store).data))
          => NoDup(Cached(store').data)]_vars

\* An upsert of an identity already in a two-element list was applied and
\* the list is duplicate-free.
C3_Witness ==
    /\ lastRet /\ applied.type = UPSERT
    /\ Len(Cached(store).data) = 2
    /\ NoDup(Cached(store).data)
    /\ Cached(store).data[2].id = applied.data.id

\* C10 (as claimed): after a Remove of identity i returned true under a
\* configuration with an entity name, the record (entityName, i) is gone.
C10_RemoveEvictsRecord ==
    (lastRet /\ applied.type = REMOVE /\ NameOf(lastMgr) = TODO)
        => store.recs[applied.id] = NoRec

\* C32 (as claimed): a call to executeOperation of either manager in which no
\* store primitive throws evicts a record if and only if the operation is a
\* Remove that reached the write, an entity name is configured and the
\* identity resolves to a cache id, whether or not the identity was in the
\* list; add, update, upsert and replace call neither identify nor evict.
C32_EvictsExactlyOnRemove ==
    [][(lastCall'.surface = "executeOperation" /\ lastCall'.threw = "none") =>
          /\ ("evict" \in lastCall'.calls) <=>
                 /\ lastRet'
                 /\ applied'.type = REMOVE
                 /\ (IF lastMgr' = "ocm" THEN cacheManager.config.entityName
                     ELSE entities[TODOS].entityName) = TODO
                 /\ Identify(TODO, "id", applied'.id) # NoCacheId
          /\ (lastRet' /\ applied'.type # REMOVE) =>
                 lastCall'.calls \cap {"identify", "evict", "modify"} = {}]_vars

\* C31 (as claimed): on the store as it is, under one configuration, every
\* operation gets the same boolean from both managers and leaves the same
\* store (the same query value written, the same record evicted), falsy
\* identities included.
C31_ManagersAgree ==
    (entities[TODOS] = cacheManager.config /\ strategies[TODOS] # NoStrategy) =>
       \A op \in Operations :
          LET ecm == EntityCacheManager_executeOperation(entities, strategies, store,
                                                         op, "none")
              ocm == OptimisticCacheManager_executeOperation(cacheManager, store,
                                                             op, "none")
          IN /\ ecm.ok = ocm.ok
             /\ ecm.written = ocm.written
             /\ ecm.store = ocm.store

\* ------------------------------------------- pagination total (SpecTotal)
\* A Paginated cache driven by add, remove and replace through both managers,
\* with the operations that reached their write counted since the sequence
\* began; a replace begins a new sequence.
TotalOps == {op \in Operations : op.type \in {ADD, REMOVE, REPLACE}}

ExecuteOn(mgr, s, operation, fail) ==
    IF mgr = "ocm"
    THEN OptimisticCacheManager_executeOperation(cacheManager, s, operation, fail)
    ELSE EntityCacheManager_executeOperation(entities, strategies, s,
                                             operation, fail)

Execute(mgr, operation, fail) == ExecuteOn(mgr, store, operation, fail)

TotalInit ==
    \E name \in EntityNames, total \in 0..1 :
       /\ store = WriteQuery(EmptyStore, GET_TODOS,
                    [rk |-> TODOS, v |-> InitialValue(PAGINATED, <<>>, total)])
       /\ entities = [k \in EntityKeys |-> TodosConfig(PAGINATED, name)]
       /\ strategies = [k \in EntityKeys |-> PAGINATED]
       /\ cacheManager = OptimisticCacheManager_new(TodosConfig(PAGINATED, name))
       /\ CallIdle
       /\ AsyncIdle
       /\ RefreshIdle
       /\ StrategyIdle
       /\ HandshakeIdle /\ ProviderIdle
       /\ TabIdle
       /\ tBase = total
       /\ tAdds = 0 /\ tRemoves = 0 /\ tFloored = 0

\* executeOperation with an Add or a Remove, run to its return.
CountedExecute(mgr, operation, fail) ==
    /\ operation.type \in {ADD, REMOVE}
    /\ Reaches(operation, fail)
    /\ tAdds + tRemoves < MaxOps
    /\ \E r \in {Execute(mgr, operation, fail)} :
       /\ r.written # Null => WithinBounds(r.written)
       /\ store' = r.store
       /\ tAdds' = IF r.written # Null /\ operation.type = ADD
                   THEN tAdds + 1 ELSE tAdds
       /\ tRemoves' = IF r.written # Null /\ operation.type = REMOVE
                      THEN tRemoves + 1 ELSE tRemoves
       /\ tFloored' = IF /\ r.written # Null
                         /\ operation.type = REMOVE
                         /\ r.read.pagination.total = 0
                      THEN tFloored + 1 ELSE tFloored
       /\ UNCHANGED <<tBase, entities, strategies, cacheManager, notTotalVars>>

\* executeOperation with a Replace: the authoritative list starts a new
\* sequence from its total.
ReplaceExecute(mgr, operation, fail) ==
    /\ operation.type = REPLACE
    /\ Reaches(operation, fail)
    /\ \E r \in {Execute(mgr, operation, fail)} :
       /\ r.written # Null
       /\ WithinBounds(r.written)
       /\ store' = r.store
       /\ tBase' = r.written.pagination.total
       /\ tAdds' = 0 /\ tRemoves' = 0 /\ tFloored' = 0
       /\ UNCHANGED <<entities, strategies, cacheManager, notTotalVars>>

TotalNext ==
    \/ \E m \in {"ecm", "ocm"}, op \in TotalOps, f \in Failures :
          CountedExecute(m, op, f)
    \/ \E m \in {"ecm", "ocm"}, op \in TotalOps, f \in Failures :
          ReplaceExecute(m, op, f)

SpecTotal == TotalInit /\ [][TotalNext]_vars

Total(s) == Cached(s).pagination.total

\* C2 (as claimed): total equals max(0, T0 + #adds - #removes).
C2_TotalClosedForm == Total(store) = Max(0, tBase + tAdds - tRemoves)

\* C2 (amended): every add adds 1 and every remove subtracts 1 except a
\* remove applied when total is already 0, so total equals
\* T0 + #adds - #removes + #(removes applied at total 0).
C2_TotalStepwise == Total(store) = tBase + tAdds - tRemoves + tFloored

\* An add was applied after a remove had hit the floor.
C2_Witness == tAdds >= 1 /\ tRemoves >= 1 /\ tFloored >= 1 /\ Total(store) >= 1

\* --------------------------------- operations not awaited (SpecAsync)
\* A caller invokes operations one after another and awaits their promises
\* later, or never (`void this.removeItem(id)`).
AsyncItems == {it \in Items : it.id \in {IdZero, IdA}}

AsyncOps ==
    {[NoOp EXCEPT !.type = ADD, !.entityKey = TODOS, !.data = d, !.position = p] :
        d \in AsyncItems, p \in {START, END}}
    \cup {[NoOp EXCEPT !.type = ty, !.entityKey = TODOS, !.data = d] :
        ty \in {UPDATE, UPSERT}, d \in AsyncItems}
    \cup {[NoOp EXCEPT !.type = REMOVE, !.entityKey = TODOS, !.id = i] :
        i \in {IdZero, IdA}}
    \cup {[NoOp EXCEPT !.type = REPLACE, !.entityKey = TODOS, !.items = l] :
        l \in UNION {[1..n -> AsyncItems] : n \in 0..1}}

\* Faulty variant: the body is suspended between being called and touching the store,
\* so it works on the store the previous call started from.
InvocationStore_suspended(cur, prev) == prev

\* The store an async executeOperation body works on.  The body holds no
\* await: it runs to its return inside the call, on the store as it is then.
InvocationStore(cur, prev) == cur

\* The strategy transform an operation stands for, on a value.
Transform(mgr, v, operation) ==
    IF mgr = "ocm"
    THEN OptimisticCacheManager_applyOperation(cacheManager, v, operation)
    ELSE EntityCacheManager_transform(strategies[operation.entityKey], v,
                                      operation, "id").data

\* What the cache gives back for a written value: every element is read
\* through its normalized record, which holds the fields the last element of
\* that identity wrote.
ReadBack(v) ==
    [v EXCEPT !.data =
        [n \in 1..Len(v.data) |->
            v.data[CHOOSE m \in 1..Len(v.data) :
                      /\ v.data[m].id = v.data[n].id
                      /\ \A k \in (m + 1)..Len(v.data) :
                            v.data[k].id # v.data[n].id]]]

AsyncInit ==
    \E shape \in Shapes, name \in EntityNames :
       /\ store = WriteQuery(EmptyStore, GET_TODOS,
                    [rk |-> TODOS, v |-> InitialValue(shape, <<>>, 0)])
       /\ entities = [k \in EntityKeys |-> TodosConfig(shape, name)]
       /\ strategies = [k \in EntityKeys |-> shape]
       /\ cacheManager = OptimisticCacheManager_new(TodosConfig(shape, name))
       /\ CallIdle
       /\ TotalIdle
       /\ RefreshIdle
       /\ StrategyIdle
       /\ HandshakeIdle /\ ProviderIdle
       /\ TabIdle
       /\ pending = 0
       /\ prevStore = store
       /\ expected = Cached(store)

\* A call of executeOperation whose promise the caller does not await yet.
Invoke(mgr, operation, fail) ==
    /\ pending < MaxPending
    /\ Reaches(operation, fail)
    /\ \E r \in {ExecuteOn(mgr, InvocationStore(store, prevStore), operation, fail)} :
       /\ r.written # Null => WithinBounds(r.written)
       /\ store' = r.store
       /\ expected' = IF r.written # Null
                      THEN ReadBack(Transform(mgr, expected, operation))
                      ELSE expected
    /\ prevStore' = store
    /\ pending' = pending + 1
    /\ UNCHANGED <<entities, strategies, cacheManager, notAsyncVars>>

\* The caller awaits (or drops) the oldest promise.
Await ==
    /\ pending > 0
    /\ pending' = pending - 1
    /\ UNCHANGED <<store, prevStore, expected, entities, strategies,
                   cacheManager, notAsyncVars>>

AsyncNext ==
    \/ \E m \in {"ecm", "ocm"}, op \in AsyncOps, f \in Failures : Invoke(m, op, f)
    \/ Await

SpecAsync == AsyncInit /\ [][AsyncNext]_vars

\* C8: operations invoked without awaiting the earlier ones each read what the
\* previous one wrote: the cached value is the value their transforms give
\* when applied one after another in invocation order.
C8_SequentialApplication == Cached(store) = expected

\* Two operations are pending at once and both took effect on the list.
C8_Witness ==
    /\ pending = 2
    /\ Len(Cached(store).data) = 2
    /\ Cached(store).data[1].id # Cached(store).data[2].id
    /\ Cached(prevStore) # Cached(store)

\* ------------------------------------------- refresh (SpecRefresh)
\* The values the server may answer a network-only query with: the list it
\* holds at that moment, with its total.
ServerLists ==
    {l \in UNION {[1..n -> AsyncItems] : n \in 0..MaxLen} : NoDup(l)}

\* A response that carries no data (`data ?? null`).
NoData == Null

\* Faulty variant: a generation check that drops the response of a superseded call.
refresh_onResolved_latestOnly(s, n, issued, dataToBroadcast, threw) ==
    IF threw \/ dataToBroadcast = NoData \/ n < issued THEN s
    ELSE WriteQuery(s, GET_TODOS, [rk |-> TODOS, v |-> dataToBroadcast])

\* refresh(true) after its await: call n (of `issued` so far) got its
\* response, or client.query threw; the data, if any, is written back.
refresh_onResolved(s, n, issued, dataToBroadcast, threw) ==
    IF threw \/ dataToBroadcast = NoData THEN s
    ELSE WriteQuery(s, GET_TODOS, [rk |-> TODOS, v |-> dataToBroadcast])

\* Faulty variant: the value is written back with its list emptied.
refresh_local_emptied(s) ==
    LET dataToBroadcast == ReadQuery(s, GET_TODOS)
    IN IF dataToBroadcast.v = Null THEN s
       ELSE WriteQuery(s, GET_TODOS,
               [dataToBroadcast EXCEPT !.v = [dataToBroadcast.v EXCEPT !.data = <<>>]])

\* refresh(false): the local value is read and written back.
refresh_local(s) ==
    LET dataToBroadcast == ReadQuery(s, GET_TODOS)
    IN IF dataToBroadcast.v = Null THEN s
       ELSE WriteQuery(s, GET_TODOS, dataToBroadcast)

RefreshInit ==
    \E shape \in Shapes :
       /\ store = WriteQuery(EmptyStore, GET_TODOS,
                    [rk |-> TODOS, v |-> InitialValue(shape, <<>>, 0)])
       /\ entities = [k \in EntityKeys |-> TodosConfig(shape, TODO)]
       /\ strategies = [k \in EntityKeys |-> shape]
       /\ cacheManager = OptimisticCacheManager_new(TodosConfig(shape, TODO))
       /\ CallIdle
       /\ TotalIdle
       /\ AsyncIdle
       /\ RefreshIdle
       /\ StrategyIdle
       /\ HandshakeIdle /\ ProviderIdle
       /\ TabIdle

\* refresh(true) up to its await: the network-only query is sent.
RefreshIssue ==
    /\ rfIssued < MaxRefresh
    /\ rfIssued' = rfIssued + 1
    /\ rfInflight' = rfInflight \cup {rfIssued + 1}
    /\ UNCHANGED <<store, rfResolved, notRefreshVars>>

\* The round-trip of call n resolves, with the list the server answered, with
\* no data, or with an error thrown by client.query.
RefreshResolve(n, l, hasData, threw) ==
    /\ n \in rfInflight
    /\ LET shape == store.root[GET_TODOS].shape
           data == IF hasData /\ ~threw
                   THEN InitialValue(shape, l, Len(l)) ELSE NoData
       IN /\ store' = refresh_onResolved(store, n, rfIssued, data, threw)
          /\ rfResolved' = Append(rfResolved, [n |-> n, data |-> data])
    /\ rfInflight' = rfInflight \ {n}
    /\ UNCHANGED <<rfIssued, notRefreshVars>>

\* refresh(false), run to its return.
RefreshLocal ==
    /\ store' = refresh_local(store)
    /\ UNCHANGED <<refreshVars, notRefreshVars>>

RefreshNext ==
    \/ RefreshIssue
    \/ \E n \in 1..MaxRefresh, l \in ServerLists, d \in BOOLEAN, th \in BOOLEAN :
          RefreshResolve(n, l, d, th)
    \/ RefreshLocal

SpecRefresh == RefreshInit /\ [][RefreshNext]_vars

LastResolved == rfResolved[Len(rfResolved)]

APOLLO_CACHE_KEY == "apollo-cache"
CACHE_UPDATE == "cache-update"
\* The messages another sender may post: of another type, for another entity
\* key, or a cache-update for 'todos' of its own.
OtherMessages == {<<"other", TODOS>>, <<CACHE_UPDATE, "users">>, <<CACHE_UPDATE, TODOS>>}

\* JSON.stringify(cache.extract()): the entries that exist, by key.
Extract(s) ==
    [root |-> {<<q, s.root[q]>> : q \in {x \in Queries : s.root[x] # NullRoot}},
     ents |-> {<<i, s.recs[i]>> : i \in {x \in Ids : s.recs[x] # NoRec}}]

\* cache.restore(JSON.parse(..)): the store's content is replaced by the
\* snapshot's; what the snapshot does not name is absent afterwards.
Restore(snap) ==
    [root |-> [q \in Queries |->
                 IF \E e \in snap.root : e[1] = q
                 THEN (CHOOSE e \in snap.root : e[1] = q)[2] ELSE NullRoot],
     recs |-> [i \in Ids |->
                 IF \E e \in snap.ents : e[1] = i
                 THEN (CHOOSE e \in snap.ents : e[1] = i)[2] ELSE NoRec]]

\* StorageEvent.newValue: a serialized snapshot, text that is not JSON, the
\* empty string, or null (the key was removed).
Json(snap) == [kind |-> "json", snap |-> snap]
NotJson == [kind |-> "invalid", snap |-> NoSnapshot]
EmptyString == [kind |-> "empty", snap |-> NoSnapshot]
Removed == [kind |-> "null", snap |-> NoSnapshot]

\* Faulty variant: the storage listener of the client does not restore.
client_handleStorageChange_noRestore(s, event) == s

\* The storage listener installed by initializeApolloClient.
client_handleStorageChange(s, event) ==
    IF event.key = APOLLO_CACHE_KEY /\ event.newValue.kind \notin {"null", "empty"}
    THEN IF event.newValue.kind = "json"
         THEN Restore(event.newValue.snap)
         ELSE s      \* JSON.parse throws, the catch logs
    ELSE s

\* Faulty variant: the entity key of the message is not compared.
handleBroadcastMessage_anyEntity(waiting, entityKey, eventData) ==
    IF eventData.type = CACHE_UPDATE THEN TRUE ELSE waiting

\* The consumer's broadcast listener: the new value of the waiting flag.
handleBroadcastMessage(waiting, entityKey, eventData) ==
    IF eventData.type = CACHE_UPDATE /\ eventData.entityKey = entityKey
    THEN TRUE ELSE waiting

\* Faulty variant: the key of the storage event is not compared.
handleStorageChange_anyKey(waiting, event) ==
    IF waiting
    THEN [waiting |-> FALSE, refresh |-> 1]
    ELSE [waiting |-> waiting, refresh |-> 0]

\* Faulty variant: the flag is left set after the refresh.
handleStorageChange_keepsWaiting(waiting, event) ==
    IF waiting /\ event.key = APOLLO_CACHE_KEY
    THEN [waiting |-> TRUE, refresh |-> 1]
    ELSE [waiting |-> waiting, refresh |-> 0]

\* The consumer's storage listener: the new value of the waiting flag and the
\* number of refresh(false) calls it makes.
handleStorageChange(waiting, event) ==
    IF waiting /\ event.key = APOLLO_CACHE_KEY
    THEN [waiting |-> FALSE, refresh |-> 1]
    ELSE [waiting |-> waiting, refresh |-> 0]

\* broadcastChannel.postMessage({type: 'cache-update', entityKey, timestamp}).
BroadcastCacheUpdate(q, entityKey, seq) ==
    Append(q, [type |-> CACHE_UPDATE, entityKey |-> entityKey, seq |-> seq])

\* The mutations tab A gets confirmed.
TabOps ==
    {[NoOp EXCEPT !.type = ADD, !.entityKey = TODOS, !.data = d, !.position = START] :
        d \in {[id |-> IdZero, title |-> "t1"]}}
    \cup {[NoOp EXCEPT !.type = UPDATE, !.entityKey = TODOS,
                       !.data = [id |-> IdA, title |-> "t2"]],
          [NoOp EXCEPT !.type = REMOVE, !.entityKey = TODOS, !.id = IdA]}

\* What a writer other than tab A may put under a storage key.
OtherSnapshot ==
     Json(Extract(WriteQuery(EmptyStore, GET_TODOS,
            [rk |-> TODOS,
             v |-> InitialValue(PAGINATED, <<[id |-> IdZero, title |-> "t2"]>>, 1)])))

OtherWrites ==
    {<<APOLLO_CACHE_KEY, v>> : v \in {NotJson, EmptyString, Removed, OtherSnapshot}}
    \cup {<<"other-key", OtherSnapshot>>}

TabInit ==
    \E l \in {<<[id |-> IdA, title |-> "t1"]>>} :
       LET s0 == WriteQuery(EmptyStore, GET_TODOS,
                   [rk |-> TODOS, v |-> InitialValue(PAGINATED, l, Len(l))])
       IN /\ store = s0
          /\ storeA = s0
          /\ storage = Json(Extract(s0))
          /\ entities = [k \in EntityKeys |-> TodosConfig(PAGINATED, TODO)]
          /\ strategies = [k \in EntityKeys |-> PAGINATED]
          /\ cacheManager = OptimisticCacheManager_new(TodosConfig(PAGINATED, TODO))
          /\ CallIdle
          /\ TotalIdle
          /\ AsyncIdle
          /\ RefreshIdle
          /\ StrategyIdle
          /\ HandshakeIdle /\ ProviderIdle
          /\ waitingForStorageRef = FALSE /\ mounted = TRUE
          /\ msgQ = <<>> /\ evtQ = <<>> /\ aSeq = 0 /\ nWrites = 0 /\ nMessages = 0
          /\ lastHandled = NoHandled /\ heard = {}

\* Tab A: the server confirmed a mutation; its onCompleted applies the
\* operation to tab A's cache and the cache-update message is posted.
AConfirm(operation) ==
    /\ aSeq < MaxMutations
    /\ \E r \in {ExecuteOn("ecm", storeA, operation, "none")} :
          /\ r.written # Null => WithinBounds(r.written)
          /\ storeA' = r.store
    /\ aSeq' = aSeq + 1
    /\ msgQ' = BroadcastCacheUpdate(msgQ, TODOS, aSeq + 1)
    /\ UNCHANGED <<store, storage, waitingForStorageRef, mounted, evtQ, nWrites,
                   nMessages, lastHandled, heard, notTabVars>>

\* Tab A's persistor fires (debounced): the snapshot of tab A's store is
\* written under the cache key and the other tabs get a storage event.
APersist ==
    /\ nWrites < MaxWrites
    /\ storage # Json(Extract(storeA))
    /\ storage' = Json(Extract(storeA))
    /\ evtQ' = Append(evtQ, [key |-> APOLLO_CACHE_KEY, newValue |-> storage',
                             from |-> "A", seq |-> aSeq, src |-> Cached(storeA)])
    /\ nWrites' = nWrites + 1
    /\ UNCHANGED <<store, storeA, waitingForStorageRef, mounted, msgQ, aSeq,
                   nMessages, lastHandled, heard, notTabVars>>

\* Another same-origin writer (a third tab's persistor, any script) sets or
\* removes a storage key.
OtherWrite(key, value) ==
    /\ nWrites < MaxWrites
    /\ key = APOLLO_CACHE_KEY => value # storage
    /\ storage' = IF key = APOLLO_CACHE_KEY THEN value ELSE storage
    /\ evtQ' = Append(evtQ, [key |-> key, newValue |-> value,
                             from |-> "other", seq |-> 0, src |-> Null])
    /\ nWrites' = nWrites + 1
    /\ UNCHANGED <<store, storeA, waitingForStorageRef, mounted, msgQ, aSeq,
                   nMessages, lastHandled, heard, notTabVars>>

\* Another sender posts a message on the channel.
OtherPost(type, entityKey) ==
    /\ nMessages < MaxMessages
    /\ msgQ' = Append(msgQ, [type |-> type, entityKey |-> entityKey, seq |-> 0])
    /\ nMessages' = nMessages + 1
    /\ UNCHANGED <<store, storeA, storage, waitingForStorageRef, mounted, evtQ,
                   aSeq, nWrites, lastHandled, heard, notTabVars>>

\* Tab B gets the next broadcast message.
BMessage ==
    /\ msgQ # <<>>
    /\ msgQ' = Tail(msgQ)
    /\ LET eventData == Head(msgQ)
       IN IF mounted
          THEN /\ waitingForStorageRef' =
                     handleBroadcastMessage(waitingForStorageRef, TODOS, eventData)
               /\ heard' = IF waitingForStorageRef THEN heard \cup {eventData}
                           ELSE {eventData}
               /\ lastHandled' = [NoHandled EXCEPT
                     !.kind = "broadcast", !.mounted = TRUE,
                     !.pre = waitingForStorageRef, !.type = eventData.type,
                     !.key = eventData.entityKey, !.seq = eventData.seq]
          ELSE /\ lastHandled' = NoHandled
               /\ UNCHANGED <<waitingForStorageRef, heard>>
    /\ UNCHANGED <<store, storeA, storage, mounted, evtQ, aSeq, nWrites,
                   nMessages, notTabVars>>

\* Tab B gets the next storage event: the client's listener runs first (it was
\* added before anything mounted), then the consumer's, which may refresh.
BStorage ==
    /\ evtQ # <<>>
    /\ evtQ' = Tail(evtQ)
    /\ LET event == Head(evtQ)
           restored == client_handleStorageChange(store, event)
           h == IF mounted THEN handleStorageChange(waitingForStorageRef, event)
                ELSE [waiting |-> waitingForStorageRef, refresh |-> 0]
       IN /\ waitingForStorageRef' = h.waiting
          /\ store' = IF h.refresh = 1 THEN refresh_local(restored) ELSE restored
          /\ lastHandled' = [NoHandled EXCEPT
                !.kind = "storage", !.mounted = mounted,
                !.pre = waitingForStorageRef, !.refreshed = h.refresh,
                !.key = event.key, !.from = event.from, !.seq = event.seq,
                !.json = (event.newValue.kind = "json"), !.src = event.src]
    /\ UNCHANGED <<storeA, storage, mounted, msgQ, aSeq, nWrites, nMessages,
                   heard, notTabVars>>

\* Faulty variant: the cleanup removes the listeners and leaves the flag.
BUnmount_keepsFlag ==
    /\ mounted
    /\ mounted' = FALSE
    /\ lastHandled' = NoHandled
    /\ heard' = {}
    /\ UNCHANGED <<store, storeA, storage, waitingForStorageRef, msgQ, evtQ, aSeq,
                   nWrites, nMessages, notTabVars>>

\* The consumer unmounts: the effect's cleanup removes both listeners and
\* resets the flag.
BUnmount ==
    /\ mounted
    /\ mounted' = FALSE
    /\ waitingForStorageRef' = FALSE
    /\ lastHandled' = NoHandled
    /\ heard' = {}
    /\ UNCHANGED <<store, storeA, storage, msgQ, evtQ, aSeq, nWrites,
                   nMessages, notTabVars>>

\* A dependency of the effect changed on a render (entityKey, refresh): the
\* cleanup runs, resetting the flag, and the listeners are added again.
BEffectRerun ==
    /\ mounted
    /\ waitingForStorageRef
    /\ waitingForStorageRef' = FALSE
    /\ lastHandled' = NoHandled
    /\ heard' = {}
    /\ UNCHANGED <<store, storeA, storage, mounted, msgQ, evtQ, aSeq, nWrites,
                   nMessages, notTabVars>>

TabNext ==
    \/ \E op \in TabOps : AConfirm(op)
    \/ APersist
    \/ \E w \in OtherWrites : OtherWrite(w[1], w[2])
    \/ \E m \in OtherMessages : OtherPost(m[1], m[2])
    \/ BMessage
    \/ BStorage
    \/ BUnmount
    \/ BEffectRerun

SpecTab == TabInit /\ [][TabNext]_vars

Matches(m) == m.type = CACHE_UPDATE /\ m.entityKey = TODOS

\* C4: the consumer calls refresh(false), once, exactly on a storage event for
\* the cache key got while AwaitingPersist, and is Idle afterwards; any other
\* storage event makes no refresh and leaves the state as it was.
C4_RefreshExactlyOnAwaitedCacheKeyEvent ==
    (lastHandled.kind = "storage" /\ lastHandled.mounted) =>
       /\ lastHandled.refreshed \in {0, 1}
       /\ (lastHandled.refreshed = 1) <=>
             (lastHandled.pre /\ lastHandled.key = APOLLO_CACHE_KEY)
       /\ lastHandled.refreshed = 1 => ~waitingForStorageRef
       /\ lastHandled.refreshed = 0 => waitingForStorageRef = lastHandled.pre

C4_Witness ==
    /\ lastHandled.kind = "storage" /\ lastHandled.mounted
    /\ lastHandled.pre /\ lastHandled.key = APOLLO_CACHE_KEY
    /\ lastHandled.refreshed = 1 /\ ~waitingForStorageRef

\* C5: only a message of type cache-update for the consumer's own entity key
\* moves it to AwaitingPersist, any other message leaves its state alone, and
\* every refresh follows such a message got since the consumer was last Idle.
C5_OnlyMatchingBroadcastArms ==
    /\ (lastHandled.kind = "broadcast" /\ lastHandled.mounted) =>
          waitingForStorageRef =
             (lastHandled.pre \/ (/\ lastHandled.type = CACHE_UPDATE
                                  /\ lastHandled.key = TODOS))
    /\ (lastHandled.kind = "storage" /\ lastHandled.refreshed = 1) =>
          \E m \in heard : Matches(m)

C5_Witness ==
    /\ lastHandled.kind = "storage" /\ lastHandled.refreshed = 1
    /\ \E m \in heard : Matches(m)
    /\ \E m \in heard : ~Matches(m)

\* C6: when the consumer refreshes after tab A's broadcast for a confirmed
\* mutation, the storage event that ended AwaitingPersist comes from a
\* persisted write of tab A that holds that mutation.
C6_PersistLandedBeforeRefresh ==
    (lastHandled.kind = "storage" /\ lastHandled.refreshed = 1) =>
       \A m \in heard :
          (Matches(m) /\ m.seq > 0) =>
             (lastHandled.from = "A" /\ lastHandled.seq >= m.seq)

StrategyItems == {it \in Items : it.id \in {IdZero, IdA}}

StrategyLists == UNION {[1..n -> StrategyItems] : n \in 0..MaxLen}

StrategyValues ==
    {InitialValue(shape, l, total) :
        shape \in Shapes, l \in StrategyLists, total \in 0..MaxTotal}

StrategyOps ==
    {[NoOp EXCEPT !.type = ADD, !.entityKey = TODOS, !.data = d, !.position = p] :
        d \in StrategyItems, p \in {START, END, Undefined}}
    \cup {[NoOp EXCEPT !.type = ty, !.entityKey = TODOS, !.data = d] :
        ty \in {UPDATE, UPSERT}, d \in StrategyItems}
    \cup {[NoOp EXCEPT !.type = REMOVE, !.entityKey = TODOS, !.id = i] : i \in Ids}
    \cup {[NoOp EXCEPT !.type = REPLACE, !.entityKey = TODOS, !.items = l] :
        l \in StrategyLists}

StrategyInit ==
    \E v \in StrategyValues :
       /\ stIn = v
       /\ stImpl = "none" /\ stOp = NoOp /\ stOut = Null /\ stAgain = Null
       /\ store = EmptyStore
       /\ entities = [k \in EntityKeys |-> TodosConfig(v.shape, TODO)]
       /\ strategies = [k \in EntityKeys |-> v.shape]
       /\ cacheManager = OptimisticCacheManager_new(TodosConfig(v.shape, TODO))
       /\ CallIdle
       /\ TotalIdle
       /\ AsyncIdle
       /\ RefreshIdle
       /\ TabIdle /\ HandshakeIdle /\ ProviderIdle

\* The function an operation selects is applied to the value, and once more
\* to its own result.
StrategyApply(impl, operation) ==
    /\ stOp = NoOp
    /\ stImpl' = impl
    /\ stOp' = operation
    /\ stOut' = Transform(impl, stIn, operation)
    /\ stAgain' = Transform(impl, Transform(impl, stIn, operation), operation)
    /\ UNCHANGED <<stIn, notStrategyVars>>

\* The result becomes the value the next function is applied to.
StrategyContinue ==
    /\ stOp # NoOp
    /\ WithinBounds(stOut)
    /\ stIn' = stOut
    /\ stImpl' = "none" /\ stOp' = NoOp /\ stOut' = Null /\ stAgain' = Null
    /\ UNCHANGED notStrategyVars

StrategyNext ==
    \/ \E impl \in {"ecm", "ocm"}, op \in StrategyOps : StrategyApply(impl, op)
    \/ StrategyContinue

SpecStrategy == StrategyInit /\ [][StrategyNext]_vars

\* What the claims say of one application, in terms of the lists alone.
HasIdentity(data, id) == \E n \in 1..Len(data) : data[n].id = id
CountIdentity(data, id) == Cardinality({n \in 1..Len(data) : data[n].id = id})
IsPaginated(v) == v.shape = PAGINATED
SameBesidesData(a, b) == [a EXCEPT !.data = <<>>] = [b EXCEPT !.data = <<>>]
SameBesidesDataAndTotal(a, b) ==
    /\ a.shape = b.shape /\ a.extra = b.extra
    /\ [a.pagination EXCEPT !.total = 0] = [b.pagination EXCEPT !.total = 0]

\* C13: upsert is idempotent for all three shapes: applying it again with the
\* same item gives the same data, in content and order, and the same total.
C13_UpsertIdempotent ==
    stOp.type = UPSERT => stAgain = stOut

\* An upsert of an identity the list did not hold: the first application
\* inserted, the second left the result alone.
C13_Witness ==
    /\ stOp.type = UPSERT
    /\ ~HasIdentity(stIn.data, stOp.data.id)
    /\ Len(stOut.data) = Len(stIn.data) + 1
    /\ stAgain = stOut

\* C14: upsert is update when an element has the item's identity (length and
\* total unchanged) and add at Start otherwise (the item becomes data[0]).
C14_UpsertIsUpdateOrAddAtStart ==
    stOp.type = UPSERT =>
       IF HasIdentity(stIn.data, stOp.data.id)
       THEN /\ stOut = Transform(stImpl, stIn, [stOp EXCEPT !.type = UPDATE])
            /\ Len(stOut.data) = Len(stIn.data)
            /\ stOut.pagination = stIn.pagination
       ELSE /\ stOut = Transform(stImpl, stIn,
                          [stOp EXCEPT !.type = ADD, !.position = START])
            /\ stOut.data = <<stOp.data>> \o stIn.data

\* An upsert of a new identity into a list that is not empty: the item is the
\* first element, not the last.
C14_Witness ==
    /\ stOp.type = UPSERT
    /\ stIn.data # <<>>
    /\ ~HasIdentity(stIn.data, stOp.data.id)
    /\ stOut.data[1] = stOp.data
    /\ stOut.data[Len(stOut.data)] # stOp.data

\* C15: add puts the item first when position is Start or omitted and last
\* when it is End, keeps the previous elements in order, checks no identity
\* (the length grows by 1) and, for Paginated, increases total by exactly 1.
C15_AddInsertsAtEdge ==
    stOp.type = ADD =>
       /\ Len(stOut.data) = Len(stIn.data) + 1
       /\ stOp.position \in {START, Undefined} =>
             stOut.data = <<stOp.data>> \o stIn.data
       /\ stOp.position = END => stOut.data = stIn.data \o <<stOp.data>>
       /\ SameBesidesDataAndTotal(stOut, stIn)
       /\ stOut.pagination.total =
             IF IsPaginated(stIn) THEN stIn.pagination.total + 1
             ELSE stIn.pagination.total

\* A Paginated value with total 3 and an element of the item's identity; add
\* without a position gives data[0] = item and total 4.
C15_Witness ==
    /\ stOp.type = ADD /\ stOp.position = Undefined
    /\ IsPaginated(stIn) /\ stIn.pagination.total = 3
    /\ HasIdentity(stIn.data, stOp.data.id)
    /\ stOut.data[1] = stOp.data
    /\ stOut.pagination.total = 4

\* The position in data of the k-th element whose identity is not id.
KeptIndex(data, id, k) ==
    CHOOSE n \in 1..Len(data) :
       /\ data[n].id # id
       /\ Cardinality({m \in 1..n : data[m].id # id}) = k

\* C16: remove filters out every element of the identity and keeps the others
\* in order; for Paginated total becomes max(0, total - 1), never negative.
C16_RemoveFiltersAndFloors ==
    stOp.type = REMOVE =>
       /\ Len(stOut.data) = Len(stIn.data) - CountIdentity(stIn.data, stOp.id)
       /\ \A k \in 1..Len(stOut.data) :
             stOut.data[k] = stIn.data[KeptIndex(stIn.data, stOp.id, k)]
       /\ SameBesidesDataAndTotal(stOut, stIn)
       /\ stOut.pagination.total >= 0
       /\ stOut.pagination.total =
             IF IsPaginated(stIn) /\ stIn.pagination.total >= 1
             THEN stIn.pagination.total - 1
             ELSE IF IsPaginated(stIn) THEN 0 ELSE stIn.pagination.total

\* Two elements of the identity are removed at once.
C16_Witness ==
    /\ stOp.type = REMOVE
    /\ CountIdentity(stIn.data, stOp.id) = 2
    /\ ~HasIdentity(stOut.data, stOp.id)

\* C17 (as claimed): removing an identity a Paginated value does not hold
\* leaves data and total unchanged.
C17_RemoveAbsentChangesNothing ==
    (stOp.type = REMOVE /\ IsPaginated(stIn)
        /\ ~HasIdentity(stIn.data, stOp.id)) => stOut = stIn

\* C18: update replaces every element of the item's identity by the item and
\* leaves the other elements, the order, the length and the pagination alone;
\* with no match the data is unchanged.
C18_UpdateReplacesInPlace ==
    stOp.type = UPDATE =>
       /\ Len(stOut.data) = Len(stIn.data)
       /\ \A n \in 1..Len(stIn.data) :
             stOut.data[n] = IF stIn.data[n].id = stOp.data.id
                             THEN stOp.data ELSE stIn.data[n]
       /\ SameBesidesData(stOut, stIn)
       /\ ~HasIdentity(stIn.data, stOp.data.id) => stOut = stIn

\* An update that changed the second element and kept the first, which has
\* another identity.
C18_Witness ==
    /\ stOp.type = UPDATE
    /\ Len(stIn.data) = 2
    /\ stIn.data[1].id # stOp.data.id
    /\ stIn.data[2].id = stOp.data.id /\ stIn.data[2] # stOp.data
    /\ stOut.data = <<stIn.data[1], stOp.data>>

\* C19: replace gives data equal to the items whatever the data was; for
\* Paginated total is the number of items, 0 for an empty list.
C19_ReplaceResetsDataAndTotal ==
    stOp.type = REPLACE =>
       /\ stOut.data = stOp.items
       /\ SameBesidesDataAndTotal(stOut, stIn)
       /\ stOut.pagination.total =
             IF IsPaginated(stIn) THEN Len(stOp.items) ELSE stIn.pagination.total

\* A Paginated value with elements and a total above 0 replaced by the empty
\* list: total is 0.
C19_Witness ==
    /\ stOp.type = REPLACE /\ stOp.items = <<>>
    /\ IsPaginated(stIn) /\ stIn.data # <<>> /\ stIn.pagination.total > 0
    /\ stOut.data = <<>> /\ stOut.pagination.total = 0

\* C33: every transform of either copy changes only data and, for Paginated,
\* pagination.total: page, limit and totalPages are what they were (totalPages
\* is not recomputed), the shape is kept, and the extra top-level field of a
\* SimpleList value is carried over.
C33_TransformsKeepTheFrame ==
    stOp # NoOp =>
       /\ stOut.shape = stIn.shape
       /\ stOut.pagination.page = stIn.pagination.page
       /\ stOut.pagination.limit = stIn.pagination.limit
       /\ stOut.pagination.totalPages = stIn.pagination.totalPages
       /\ (~IsPaginated(stIn) => stOut.pagination.total = stIn.pagination.total)
       /\ stOut.extra = stIn.extra

\* A Paginated value with elements replaced by the empty list: data and total
\* change, totalPages is still 1 although the total is 0.
C33_Witness ==
    /\ stOp.type = REPLACE /\ stOp.items = <<>> /\ stImpl = "ecm"
    /\ IsPaginated(stIn) /\ stIn.data # <<>> /\ stIn.pagination.total > 0
    /\ stOut.data # stIn.data /\ stOut.pagination.total # stIn.pagination.total
    /\ stOut.pagination.totalPages = 1 /\ stOut.pagination.page = 1
    /\ stOut.pagination.limit = 50

\* ------------------------------------------ the exposed surface (SpecSurface)
\* Every method the hooks hand to a component, called on a store that has the
\* query cached or not, under a registry that holds the key or not, with any
\* one store primitive or the network query throwing.
\* A failure is injected only into a primitive the method can reach.
ReachedBy(surface) ==
    CASE surface = "updateEntityFields" -> {"none", "readQuery", "identify", "modify"}
      [] surface = "getCachedData" -> {"none", "readQuery"}
      [] surface = "refresh" -> {"none", "query", "readQuery", "writeQuery"}
      [] OTHER -> Failures

\* The mutations the component calls: one of each type, a remove of a falsy
\* and of a truthy identity and a replace by the empty list.
SurfaceOps ==
    {op \in Operations :
        \/ op.type = ADD /\ op.data.id = IdA /\ op.position = START
        \/ op.type = UPDATE /\ op.data.id = IdA
        \/ op.type = UPSERT /\ op.data.id = IdZero
        \/ op.type = REMOVE /\ op.id \in {IdZero, IdA}
        \/ op.type = REPLACE /\ op.items = <<>>}

\* The field updates updateEntityFields is given: a new title.
FieldUpdates == {"t2"}

\* cache.modify({id, fields: {title: () => title}}): [changed, store]; a record
\* that does not exist, or that holds the value already, is left as it is.
Modify(s, cacheId, title) ==
    IF cacheId # NoCacheId /\ cacheId[1] = TODO
       /\ s.recs[cacheId[2]] # NoRec /\ s.recs[cacheId[2]] # title
    THEN [changed |-> TRUE,
          store |-> [s EXCEPT !.recs = [s.recs EXCEPT ![cacheId[2]] = title]]]
    ELSE [changed |-> FALSE, store |-> s]

\* The primitives updateEntityFields calls inside a try block: its own, and
\* the one of readCacheData under getCachedData.
updateEntityFields_tryBlock == {"readQuery", "identify", "modify"}

\* updateEntityFields(id, fieldUpdates), run to its return.
updateEntityFields(ents, s, entityKey, id, title, fail) ==
    LET cachedData == EntityCacheManager_getCachedData(ents, s, entityKey, fail)
        read == IF ents[entityKey] = NoConfig THEN {} ELSE {"readQuery"}
        m == Modify(s, Identify(TODO, "id", id), title)
    IN IF cachedData = Null \/ cachedData = UndefinedValue
       THEN Outcome(FALSE, s, cachedData, Null, read,
                    IF fail = "readQuery" /\ read # {} THEN fail ELSE "none",
                    updateEntityFields_tryBlock)
       ELSE IF fail = "identify"
       THEN Outcome(FALSE, s, cachedData, Null, read \cup {"identify"}, fail,
                    updateEntityFields_tryBlock)
       ELSE IF fail = "modify"
       THEN Outcome(FALSE, s, cachedData, Null,
                    read \cup {"identify", "modify"}, fail,
                    updateEntityFields_tryBlock)
       ELSE Outcome(m.changed, m.store, cachedData, Null,
                    read \cup {"identify", "modify"}, "none",
                    updateEntityFields_tryBlock)

\* The primitives refresh calls, all of them inside its try block.
refresh_tryBlock == {"query", "readQuery", "writeQuery"}

\* refresh(networkOnly), run to its return; response is what the network-only
\* query resolves with.
refresh(s, networkOnly, response, fail) ==
    IF networkOnly
    THEN IF fail = "query"
         THEN Outcome(FALSE, s, Null, Null, {"query"}, fail, refresh_tryBlock)
         ELSE IF response = NoData
         THEN Outcome(TRUE, s, Null, Null, {"query"}, "none", refresh_tryBlock)
         ELSE IF fail = "writeQuery"
         THEN Outcome(FALSE, s, Null, Null, {"query", "writeQuery"}, fail,
                      refresh_tryBlock)
         ELSE Outcome(TRUE, refresh_onResolved(s, 1, 1, response, FALSE), Null,
                      response, {"query", "writeQuery"}, "none", refresh_tryBlock)
    ELSE IF fail = "readQuery"
         THEN Outcome(FALSE, s, Null, Null, {"readQuery"}, fail, refresh_tryBlock)
         ELSE IF ReadQuery(s, GET_TODOS).v = Null
         THEN Outcome(TRUE, s, Null, Null, {"readQuery"}, "none", refresh_tryBlock)
         ELSE IF fail = "writeQuery"
         THEN Outcome(FALSE, s, ReadQuery(s, GET_TODOS).v, Null,
                      {"readQuery", "writeQuery"}, fail, refresh_tryBlock)
         ELSE Outcome(TRUE, refresh_local(s), ReadQuery(s, GET_TODOS).v,
                      ReadQuery(s, GET_TODOS).v, {"readQuery", "writeQuery"},
                      "none", refresh_tryBlock)

\* What the server answers a network-only query of the todos with.
SurfaceResponses(shape) ==
    {NoData, InitialValue(shape, <<[id |-> IdA, title |-> "t1"]>>, 1)}

\* The component has mounted; the query has been fetched into the store or
\* not yet.
SurfaceInit ==
    \E shape \in Shapes, name \in EntityNames, loaded \in BOOLEAN :
       /\ store = IF loaded
                  THEN WriteQuery(EmptyStore, GET_TODOS,
                          [rk |-> TODOS, v |-> InitialValue(shape, <<>>, 0)])
                  ELSE EmptyStore
       /\ entities = [k \in EntityKeys |-> TodosConfig(shape, name)]
       /\ strategies = [k \in EntityKeys |-> shape]
       /\ cacheManager = OptimisticCacheManager_new(TodosConfig(shape, name))
       /\ CallIdle
       /\ TotalIdle
       /\ AsyncIdle
       /\ RefreshIdle
       /\ StrategyIdle
       /\ HandshakeIdle /\ ProviderIdle
       /\ TabIdle

\* updateEntityFields(id, {title}) of the hook bound to entityKey.
UpdateEntityFields(entityKey, id, title, fail) ==
    /\ \E r \in {updateEntityFields(entities, store, entityKey, id, title, fail)} :
       /\ store' = r.store
       /\ lastCall' = [Seen("updateEntityFields", BooleanResult(r), r)
                          EXCEPT !.key = entityKey]
    /\ lastMgr' = "none"
    /\ lastRet' = FALSE
    /\ applied' = NoOp
    /\ UNCHANGED <<entities, strategies, cacheManager, notMgrVars>>

\* getCachedData(entityKey)
GetCachedData(entityKey, fail) ==
    /\ \E v \in {EntityCacheManager_getCachedData(entities, store, entityKey, fail)} :
       lastCall' =
          [surface |-> "getCachedData", key |-> entityKey, arg |-> Undefined,
           config |-> NoConfig,
           result |-> IF v = Null THEN "null"
                      ELSE IF v = UndefinedValue THEN "undefined" ELSE "value",
           value |-> v,
           calls |-> IF entities[entityKey] = NoConfig THEN {} ELSE {"readQuery"},
           threw |-> IF fail = "readQuery" /\ entities[entityKey] # NoConfig
                     THEN fail ELSE "none"]
    /\ lastMgr' = "none"
    /\ lastRet' = FALSE
    /\ applied' = NoOp
    /\ UNCHANGED <<coreVars, notMgrVars>>

\* refresh(networkOnly), its round trip included.
Refresh(networkOnly, response, fail) ==
    /\ \E r \in {refresh(store, networkOnly, response, fail)} :
       /\ store' = r.store
       /\ lastCall' = [Seen("refresh", "void", r)
                          EXCEPT !.arg = IF networkOnly THEN "true" ELSE "false",
                                 !.value = IF "query" \in r.calls /\ r.threw # "query"
                                           THEN response ELSE Null]
    /\ lastMgr' = "none"
    /\ lastRet' = FALSE
    /\ applied' = NoOp
    /\ UNCHANGED <<entities, strategies, cacheManager, notMgrVars>>

SurfaceNext ==
    \/ \E k \in EntityKeys :
          RegisterEntity(k, TodosConfig(cacheManager.config.dataStructure,
                                        cacheManager.config.entityName))
    \/ Destroy
    \/ \E op \in SurfaceOps, f \in Failures : EcmExecute(op, f)
    \/ \E op \in SurfaceOps, f \in Failures : OcmExecute(op, f)
    \/ \E k \in EntityKeys, i \in Ids, ti \in FieldUpdates :
          \E f \in ReachedBy("updateEntityFields") : UpdateEntityFields(k, i, ti, f)
    \/ \E k \in EntityKeys, f \in ReachedBy("getCachedData") : GetCachedData(k, f)
    \/ \E n \in BOOLEAN, f \in ReachedBy("refresh") :
          \E d \in SurfaceResponses(cacheManager.config.dataStructure) :
             Refresh(n, d, f)

SpecSurface == SurfaceInit /\ [][SurfaceNext]_vars

\* C11: when the query has no cached value, or readQuery throws,
\* executeOperation of either manager returns false, calls neither writeQuery
\* nor evict, leaves the store as it was and sends no network query.
C11_AbsentValueFailsWithoutWriting ==
    [][(/\ lastCall'.surface = "executeOperation"
        /\ "readQuery" \in lastCall'.calls
        /\ (Cached(store) = Null \/ lastCall'.threw = "readQuery"))
          => (/\ lastCall'.result = "false"
              /\ lastCall'.calls = {"readQuery"}
              /\ store' = store)]_vars

\* executeOperation found nothing cached for the query and returned false
\* after the one read.
C11_Witness ==
    /\ lastCall.surface = "executeOperation"
    /\ lastCall.calls = {"readQuery"}
    /\ lastCall.threw = "none"
    /\ lastCall.result = "false"
    /\ Cached(store) = Null

\* C12: no method of the surface raises to its caller: the mutations and
\* updateEntityFields resolve to a boolean, getCachedData returns a value or
\* null, and refresh resolves, whichever primitive throws.
C12_NoOperationRaises ==
    /\ lastCall.result # "raised"
    /\ lastCall.surface \in {"executeOperation", "updateEntityFields"}
          => lastCall.result \in {"true", "false"}
    /\ lastCall.surface = "getCachedData" => lastCall.result \in {"value", "null"}
    /\ lastCall.surface = "refresh" => lastCall.result = "void"

\* A remove whose evict threw, after the write, resolved to false.
C12_Witness ==
    /\ lastCall.surface = "executeOperation"
    /\ lastMgr = "ecm"
    /\ lastCall.threw = "evict"
    /\ lastCall.result = "false"

\* C20: EntityCacheManager.executeOperation for a key the registry does not
\* hold returns false without reading, writing or evicting, whatever the
\* operation.
C20_UnregisteredKeyFailsUntouched ==
    [][(/\ lastCall'.surface = "executeOperation"
        /\ lastMgr' = "ecm"
        /\ entities[TODOS] = NoConfig)
          => (/\ lastCall'.result = "false"
              /\ lastCall'.calls = {}
              /\ store' = store)]_vars

\* After destroy(), an operation on a store that holds a cached item returned
\* false without a call to the store.
C20_Witness ==
    /\ lastCall.surface = "executeOperation"
    /\ lastMgr = "ecm"
    /\ entities[TODOS] = NoConfig
    /\ lastCall.result = "false"
    /\ lastCall.calls = {}
    /\ Cached(store) # Null
    /\ Cached(store).data # <<>>

\* C24 (as claimed): updateEntityFields for a key whose configuration has no
\* entityName returns false and modifies no record.
C24_FieldsNeedEntityName ==
    [][(/\ lastCall'.surface = "updateEntityFields"
        /\ entities[lastCall'.key] # NoConfig
        /\ ~Truthy(entities[lastCall'.key].entityName))
          => (lastCall'.result = "false" /\ store' = store)]_vars

\* C25: getCachedData changes neither the store nor the registry; it returns
\* null for a key with no config, for a query with nothing cached and when
\* readQuery throws, and otherwise the value cached for the key's query, which
\* the store holds under the configured queryResultKey.
C25_GetCachedDataIsPassThrough ==
    [][lastCall'.surface = "getCachedData" =>
          /\ store' = store
          /\ entities' = entities
          /\ strategies' = strategies
          /\ IF \/ entities[lastCall'.key] = NoConfig
                \/ Cached(store) = Null
                \/ lastCall'.threw = "readQuery"
             THEN lastCall'.result = "null" /\ lastCall'.value = Null
             ELSE /\ lastCall'.result = "value"
                  /\ lastCall'.value = Cached(store)
                  /\ HasResultKey(entities[lastCall'.key])
                        => store.root[entities[lastCall'.key].query].rk
                              = entities[lastCall'.key].queryResultKey]_vars

\* getCachedData returned the cached value, a list that holds an item.
C25_Witness ==
    /\ lastCall.surface = "getCachedData"
    /\ lastCall.result = "value"
    /\ lastCall.value = Cached(store)
    /\ lastCall.value.data # <<>>

\* C27: refresh(false) sends no network query, leaves the cached value as it
\* was and writes nothing when there is none; refresh(true) leaves the cached
\* value equal to the data the query resolved with, and the store as it was
\* when the query resolved with no data or threw.
C27_RefreshRewritesWhatItRead ==
    [][lastCall'.surface = "refresh" =>
          IF lastCall'.arg = "false"
          THEN /\ lastCall'.calls \subseteq {"readQuery", "writeQuery"}
               /\ Cached(store') = Cached(store)
               /\ Cached(store) = Null
                     => (store' = store /\ "writeQuery" \notin lastCall'.calls)
          ELSE /\ "query" \in lastCall'.calls
               /\ IF lastCall'.threw = "none" /\ lastCall'.value # NoData
                  THEN /\ "writeQuery" \in lastCall'.calls
                       /\ Cached(store') = lastCall'.value
                  ELSE store' = store]_vars

\* refresh(false) read a list that holds an item and wrote it back.
C27_Witness ==
    /\ lastCall.surface = "refresh"
    /\ lastCall.arg = "false"
    /\ lastCall.calls = {"readQuery", "writeQuery"}
    /\ lastCall.threw = "none"
    /\ Cached(store) # Null
    /\ Cached(store).data # <<>>

\* C26: unmounting leaves the consumer Idle, also when it was AwaitingPersist,
\* and no broadcast or storage event delivered after the unmount changes its
\* state or makes it refresh.
C26_UnmountedConsumerStaysIdle ==
    [][/\ (mounted /\ ~mounted') => ~waitingForStorageRef'
       /\ ~mounted => (~waitingForStorageRef' /\ lastHandled'.refreshed = 0)]_vars

\* After tab A's broadcast and the unmount, tab A's storage event for the
\* cache key was delivered to tab B.
C26_Witness ==
    /\ ~mounted
    /\ ~waitingForStorageRef
    /\ aSeq = 1 /\ msgQ = <<>>
    /\ lastHandled.kind = "storage"
    /\ lastHandled.key = APOLLO_CACHE_KEY
    /\ lastHandled.from = "A"

\* C29 (as claimed): while the consumer stays mounted, AwaitingPersist ends
\* only with the storage event for the cache key, which refreshes.
C29_HandshakeNotLost ==
    [][(mounted /\ mounted' /\ waitingForStorageRef /\ ~waitingForStorageRef')
          => (/\ lastHandled'.kind = "storage"
              /\ lastHandled'.key = APOLLO_CACHE_KEY
              /\ lastHandled'.refreshed = 1)]_vars

\* --------------------------------------- the handshake flag (SpecHandshake)
\* Tab B's mounted consumer for 'todos', handed any sequence of broadcast
\* messages and storage events, with re-runs of its effect in between.
Delivered(kind, type, key, refreshed) ==
    [kind |-> kind, type |-> type, key |-> key, refreshed |-> refreshed]

\* The next broadcast message is handed to handleBroadcastMessage.
HsMessage(type, entityKey) ==
    /\ Len(delivered) < MaxEvents
    /\ mounted
    /\ waitingForStorageRef' =
          handleBroadcastMessage(waitingForStorageRef, TODOS,
                                 [type |-> type, entityKey |-> entityKey, seq |-> 0])
    /\ delivered' = Append(delivered, Delivered("broadcast", type, entityKey, 0))
    /\ UNCHANGED <<store, storeA, storage, mounted, msgQ, evtQ, aSeq, nWrites,
                   nMessages, lastHandled, heard, notHandshakeVars>>

\* The next storage event is handed to the client's listener and then to
\* handleStorageChange, which may refresh.
HsStorage(key) ==
    /\ Len(delivered) < MaxEvents
    /\ mounted
    /\ LET event == [key |-> key, newValue |-> storage]
           restored == client_handleStorageChange(store, event)
           h == handleStorageChange(waitingForStorageRef, event)
       IN /\ waitingForStorageRef' = h.waiting
          /\ store' = IF h.refresh = 1 THEN refresh_local(restored) ELSE restored
          /\ delivered' = Append(delivered, Delivered("storage", "", key, h.refresh))
    /\ UNCHANGED <<storeA, storage, mounted, msgQ, evtQ, aSeq, nWrites,
                   nMessages, lastHandled, heard, notHandshakeVars>>

\* A dependency of the effect changed on a render while the flag was set.
HsEffectRerun ==
    /\ Len(delivered) < MaxEvents
    /\ mounted
    /\ waitingForStorageRef
    /\ waitingForStorageRef' = FALSE
    /\ delivered' = Append(delivered, Delivered("rerun", "", "", 0))
    /\ UNCHANGED <<store, storeA, storage, mounted, msgQ, evtQ, aSeq, nWrites,
                   nMessages, lastHandled, heard, notHandshakeVars>>

HandshakeNext ==
    \/ \E m \in OtherMessages : HsMessage(m[1], m[2])
    \/ \E key \in {APOLLO_CACHE_KEY, "other-key"} : HsStorage(key)
    \/ HsEffectRerun

SpecHandshake == TabInit /\ [][HandshakeNext]_vars

IsMatchingBroadcast(e) ==
    e.kind = "broadcast" /\ e.type = CACHE_UPDATE /\ e.key = TODOS
IsCacheKeyEvent(e) == e.kind = "storage" /\ e.key = APOLLO_CACHE_KEY

\* Some matching broadcast came before event j with neither a storage event
\* for the cache key nor a re-run of the effect after it.
ArmedAt(j) ==
    \E i \in 1..(j - 1) :
       /\ IsMatchingBroadcast(delivered[i])
       /\ \A m \in (i + 1)..(j - 1) :
             ~IsCacheKeyEvent(delivered[m]) /\ delivered[m].kind # "rerun"

RegistryKeys == {TODOS, "users"}

\* A dataStructure value that is none of the three.
BadShape == "tree"

RegistryConfigs ==
    {TodosConfig(PAGINATED, TODO), TodosConfig(ARRAY, ""),
     TodosConfig(BadShape, TODO), TodosConfig(BadShape, "")}

RegistryOps ==
    {[NoOp EXCEPT !.type = ADD, !.entityKey = k,
                  !.data = [id |-> IdZero, title |-> "t1"], !.position = START] :
        k \in RegistryKeys}
    \cup {[NoOp EXCEPT !.type = REMOVE, !.entityKey = k, !.id = IdA] :
        k \in RegistryKeys}

\* The manager has just been constructed: both maps are empty.  The store
\* holds the todos query with one item.
RegistryInit ==
    \E shape \in {PAGINATED, ARRAY} :
       /\ store = WriteQuery(EmptyStore, GET_TODOS,
                    [rk |-> TODOS,
                     v |-> InitialValue(shape, <<[id |-> IdA, title |-> "t1"]>>,
                              IF shape = PAGINATED THEN 1 ELSE 0)])
       /\ entities = [k \in RegistryKeys |-> NoConfig]
       /\ strategies = [k \in RegistryKeys |-> NoStrategy]
       /\ cacheManager = OptimisticCacheManager_new(TodosConfig(shape, TODO))
       /\ CallIdle
       /\ TotalIdle
       /\ AsyncIdle
       /\ RefreshIdle
       /\ StrategyIdle
       /\ TabIdle
       /\ HandshakeIdle /\ ProviderIdle

\* registerEntity(entityKey, config), which may throw.
RegistryRegister(entityKey, config) ==
    /\ \E r \in {EntityCacheManager_registerEntity(entities, strategies,
                                                   entityKey, config)} :
       /\ entities' = r.entities
       /\ strategies' = r.strategies
       /\ lastCall' = [NoCall EXCEPT
             !.surface = "registerEntity", !.key = entityKey, !.config = config,
             !.arg = IF entities[entityKey] # NoConfig THEN "registered"
                     ELSE "unregistered",
             !.result = IF r.threw THEN "raised" ELSE "void"]
    /\ lastMgr' = "none"
    /\ lastRet' = FALSE
    /\ applied' = NoOp
    /\ UNCHANGED <<store, cacheManager, notMgrVars>>

\* The strategy bound to the key, if any, is the one for the shape of the
\* cached value (a component registers the shape its query returns).
ShapeFits(entityKey) ==
    strategies[entityKey] \in {NoStrategy, store.root[GET_TODOS].shape}

RegistryNext ==
    \/ \E k \in RegistryKeys, c \in RegistryConfigs : RegistryRegister(k, c)
    \/ Destroy
    \/ \E op \in RegistryOps, f \in {"none", "readQuery", "evict"} :
          ShapeFits(op.entityKey) /\ EcmExecute(op, f)
    \/ \E k \in RegistryKeys, f \in ReachedBy("getCachedData") : GetCachedData(k, f)

SpecRegistry == RegistryInit /\ [][RegistryNext]_vars

\* C21: a registerEntity that returns stores its config and the strategy of
\* that config for its key, whatever the key held, and leaves every other key
\* as it was; repeating the call changes neither map.
C21_RegisterOverwritesOneKey ==
    [][(lastCall'.surface = "registerEntity" /\ lastCall'.result = "void") =>
          /\ entities'[lastCall'.key] = lastCall'.config
          /\ strategies'[lastCall'.key] = lastCall'.config.dataStructure
          /\ \A o \in RegistryKeys \ {lastCall'.key} :
                entities'[o] = entities[o] /\ strategies'[o] = strategies[o]
          /\ \E again \in {EntityCacheManager_registerEntity(
                              entities', strategies', lastCall'.key,
                              lastCall'.config)} :
                again.entities = entities' /\ again.strategies = strategies']_vars

\* A key that held a configuration was registered with the array
\* configuration while the other key holds the paginated one.
C21_Witness ==
    /\ lastCall.surface = "registerEntity"
    /\ lastCall.result = "void"
    /\ lastCall.arg = "registered"
    /\ lastCall.key = TODOS
    /\ entities[TODOS] = TodosConfig(ARRAY, "")
    /\ strategies[TODOS] = ARRAY
    /\ entities["users"] = TodosConfig(PAGINATED, TODO)
    /\ strategies["users"] = PAGINATED

\* C22: destroy() leaves no key with a config or a strategy; a key without
\* them stays so until registerEntity is called for it, and meanwhile
\* executeOperation on it returns false without a call to the store and
\* getCachedData returns null.
C22_DestroyClearsRegistry ==
    [][/\ lastCall'.surface = "destroy" =>
             \A k \in RegistryKeys :
                entities'[k] = NoConfig /\ strategies'[k] = NoStrategy
       /\ \A k \in RegistryKeys :
             (/\ entities[k] = NoConfig /\ strategies[k] = NoStrategy
              /\ ~(lastCall'.surface = "registerEntity" /\ lastCall'.key = k))
                => (entities'[k] = NoConfig /\ strategies'[k] = NoStrategy)
       /\ (lastCall'.surface = "executeOperation"
             /\ entities[lastCall'.key] = NoConfig)
             => (/\ lastCall'.result = "false"
                 /\ lastCall'.calls = {}
                 /\ store' = store)
       /\ (lastCall'.surface = "getCachedData"
             /\ entities[lastCall'.key] = NoConfig)
             => (/\ lastCall'.result = "null"
                 /\ lastCall'.calls = {}
                 /\ store' = store)]_vars

\* After an add through a registered key and a destroy(), getCachedData
\* returned null although the store holds the query.
C22_Witness ==
    /\ \A k \in RegistryKeys : entities[k] = NoConfig /\ strategies[k] = NoStrategy
    /\ lastCall.surface = "getCachedData"
    /\ lastCall.result = "null"
    /\ Cached(store) # Null
    /\ \E n \in 1..Len(Cached(store).data) : Cached(store).data[n].id = IdZero

\* C28 (as claimed): a registerEntity that throws leaves both maps as they
\* were.
C28_FailedRegistrationChangesNothing ==
    [][(lastCall'.surface = "registerEntity" /\ lastCall'.result = "raised")
          => (entities' = entities /\ strategies' = strategies)]_vars

\* --------------------------------------------- updateItemField (SpecField)
\* OptimisticCacheManager.updateItemField on a store that holds the query,
\* under configurations with and without an entity name and with an identity
\* field the store can or cannot resolve.
NoField == "<no field>"

\* A partial entity: a new title, or no field at all.
PartialFields == Titles \cup {NoField}

\* cache.modify with the listed fields: the store afterwards.
ModifyFields(s, cacheId, title) ==
    IF title = NoField THEN s ELSE Modify(s, cacheId, title).store

\* The primitives updateItemField calls, all inside its try block.
updateItemField_tryBlock == {"identify", "modify"}

\* Faulty variant: a missing entity name falls back to 'Todo'.
OptimisticCacheManager_updateItemField_defaultName(m, s, id, title, fail) ==
    LET name == IF m.config.entityName = Undefined \/ m.config.entityName = ""
                THEN TODO ELSE m.config.entityName
        cacheId == Identify(name, m.idField, id)
    IN IF fail = "identify"
       THEN Outcome(FALSE, s, Null, Null, {"identify"}, fail, updateItemField_tryBlock)
       ELSE IF cacheId = NoCacheId
       THEN Outcome(FALSE, s, Null, Null, {"identify"}, "none",
                    updateItemField_tryBlock)
       ELSE IF fail = "modify"
       THEN Outcome(FALSE, s, Null, Null, {"identify", "modify"}, fail,
                    updateItemField_tryBlock)
       ELSE Outcome(TRUE, ModifyFields(s, cacheId, title), Null, Null,
                    {"identify", "modify"}, "none", updateItemField_tryBlock)

\* updateItemField(id, fieldUpdates), run to its return.
OptimisticCacheManager_updateItemField(m, s, id, title, fail) ==
    LET cacheId == Identify(m.config.entityName, m.idField, id)
    IN IF m.config.entityName = Undefined \/ m.config.entityName = ""
       THEN Outcome(FALSE, s, Null, Null, {}, "none", updateItemField_tryBlock)
       ELSE IF fail = "identify"
       THEN Outcome(FALSE, s, Null, Null, {"identify"}, fail, updateItemField_tryBlock)
       ELSE IF cacheId = NoCacheId
       THEN Outcome(FALSE, s, Null, Null, {"identify"}, "none",
                    updateItemField_tryBlock)
       ELSE IF fail = "modify"
       THEN Outcome(FALSE, s, Null, Null, {"identify", "modify"}, fail,
                    updateItemField_tryBlock)
       ELSE Outcome(TRUE, ModifyFields(s, cacheId, title), Null, Null,
                    {"identify", "modify"}, "none", updateItemField_tryBlock)

FieldConfigs ==
    {[TodosConfig(PAGINATED, name) EXCEPT !.idField = f] :
        name \in {Undefined, "", TODO}, f \in {Undefined, "key"}}

FieldLists ==
    {l \in UNION {[1..n -> {it \in Items : it.title = "t1" /\ it.id \in {IdZero, IdA}}] :
                    n \in 0..2} : NoDup(l)}

FieldInit ==
    \E config \in FieldConfigs, l \in FieldLists :
       /\ store = WriteQuery(EmptyStore, GET_TODOS,
                    [rk |-> TODOS, v |-> InitialValue(PAGINATED, l, Len(l))])
       /\ entities = [k \in EntityKeys |-> config]
       /\ strategies = [k \in EntityKeys |-> PAGINATED]
       /\ cacheManager = OptimisticCacheManager_new(config)
       /\ CallIdle
       /\ TotalIdle
       /\ AsyncIdle
       /\ RefreshIdle
       /\ StrategyIdle
       /\ TabIdle
       /\ HandshakeIdle /\ ProviderIdle

UpdateItemField(id, title, fail) ==
    /\ \E r \in {OptimisticCacheManager_updateItemField(cacheManager, store, id,
                                                        title, fail)} :
       /\ store' = r.store
       /\ lastRet' = r.ok
       /\ applied' = IF r.ok
                     THEN [NoOp EXCEPT !.type = "updateItemField", !.id = id,
                                       !.data = [id |-> id, title |-> title]]
                     ELSE NoOp
       /\ lastCall' = [Seen("updateItemField", BooleanResult(r), r)
                          EXCEPT !.arg = id]
    /\ lastMgr' = "ocm"
    /\ UNCHANGED <<entities, strategies, cacheManager, notMgrVars>>

FieldNext ==
    \E id \in Ids, title \in PartialFields, fail \in {"none", "identify", "modify"} :
       UpdateItemField(id, title, fail)

SpecField == FieldInit /\ [][FieldNext]_vars

\* C23: updateItemField calls neither readQuery nor writeQuery and leaves the
\* query entries as they are.  With an entity name configured and an identity
\* the store resolves it returns true and, of all records, changes only the
\* listed field of the record of that identity; with no entity name or an
\* identity that does not resolve it returns false and changes nothing.
C23_UpdateItemFieldWritesTheRecordOnly ==
    [][lastCall'.surface = "updateItemField" =>
          /\ lastCall'.calls \cap {"readQuery", "writeQuery"} = {}
          /\ store'.root = store.root
          /\ lastCall'.threw = "none" =>
                IF /\ cacheManager.config.entityName \notin {Undefined, ""}
                   /\ Identify(cacheManager.config.entityName,
                               cacheManager.idField, lastCall'.arg) # NoCacheId
                THEN /\ lastCall'.result = "true"
                     /\ \A i \in Ids :
                           store'.recs[i] =
                              IF /\ i = lastCall'.arg
                                 /\ store.recs[i] # NoRec
                                 /\ applied'.data.title # NoField
                              THEN applied'.data.title
                              ELSE store.recs[i]
                ELSE lastCall'.result = "false" /\ store' = store]_vars

\* updateItemField returned true and the record of the identity holds the
\* new title while the other record holds its own.
C23_Witness ==
    /\ lastCall.surface = "updateItemField"
    /\ lastCall.result = "true"
    /\ lastCall.arg = IdA
    /\ applied.data.title = "t2"
    /\ store.recs[IdA] = "t2"
    /\ store.recs[IdZero] = "t1"

\* ------------------------------------- operations without payload (SpecPayload)
\* executeOperation called directly with operations of any type, with and
\* without the payload the type needs.
UnknownType == "merge"

\* The payload fields an operation may carry: none, the one its type needs, or
\* one another type needs.
PayloadOps ==
    {[NoOp EXCEPT !.type = ty, !.entityKey = TODOS, !.data = d, !.id = i, !.items = l] :
        ty \in OpTypes \cup {UnknownType},
        d \in {NoItem} \cup {it \in MgrItems : it.id = IdA},
        i \in {Undefined, IdA},
        l \in {NoItems, <<>>}}

\* The payload operation.type needs is absent, or the type is none of the five.
MissingPayload(operation) ==
    \/ operation.type \in {ADD, UPDATE, UPSERT} /\ operation.data = NoItem
    \/ operation.type = REMOVE /\ operation.id = Undefined
    \/ operation.type = REPLACE /\ operation.items = NoItems
    \/ operation.type \notin OpTypes

\* EntityCacheManager.executeOperation(operation), run to its return; applied
\* is the operation the call was given, whatever it returned.
PayloadExecute(operation, fail) ==
    /\ \E r \in {EntityCacheManager_executeOperation(entities, strategies, store,
                                                     operation, fail)} :
       /\ r.written # Null => WithinBounds(r.written)
       /\ store' = r.store
       /\ lastMgr' = "ecm"
       /\ lastRet' = r.ok
       /\ applied' = operation
       /\ lastCall' = [Seen("executeOperation", BooleanResult(r), r)
                          EXCEPT !.key = operation.entityKey]
       /\ UNCHANGED <<entities, strategies, cacheManager, notMgrVars>>

PayloadNext ==
    \E op \in PayloadOps, f \in {"none", "readQuery"} : PayloadExecute(op, f)

SpecPayload == Init /\ [][PayloadNext]_vars

\* C35: EntityCacheManager.executeOperation given Add, Update or Upsert
\* without data, Remove without id, Replace without items or an unknown type
\* returns false, calls neither writeQuery nor evict and leaves the store as
\* it was.
C35_MissingPayloadRejected ==
    [][(lastMgr' = "ecm" /\ MissingPayload(applied')) =>
          /\ lastRet' = FALSE
          /\ lastCall'.result = "false"
          /\ lastCall'.calls \cap {"writeQuery", "identify", "evict"} = {}
          /\ store' = store]_vars

\* A Remove without id on a list that holds an item, with an entity name
\* configured: false after the read alone.
C35_Witness ==
    /\ lastMgr = "ecm" /\ applied.type = REMOVE /\ applied.id = Undefined
    /\ entities[TODOS].entityName = TODO
    /\ Cached(store).data # <<>>
    /\ lastRet = FALSE /\ lastCall.calls = {"readQuery"} /\ lastCall.threw = "none"

\* ------------------------------------------ two registered keys (SpecKeys)
\* One EntityCacheManager with two keys registered on different queries over
\* the same entity type, each query cached with its own list.
GET_ARCHIVED == "GetArchived"
ARCHIVED == "archived"
IndependentKeys == {TODOS, ARCHIVED}

KeyConfig(entityKey, shape) ==
    [query |-> IF entityKey = TODOS THEN GET_TODOS ELSE GET_ARCHIVED,
     queryResultKey |-> entityKey, dataStructure |-> shape,
     entityName |-> TODO, idField |-> Undefined]

\* The lists the two queries were answered with: no identity twice.
KeyLists == {l \in ItemLists : NoDup(l)}

\* Operations on either key; the ones on todos carry the new title.
KeyItems(entityKey) ==
    {it \in Items : /\ it.id \in {IdZero, IdA}
                    /\ it.title = IF entityKey = TODOS THEN "t2" ELSE "t1"}

KeyOpsOn(k) ==
    {[NoOp EXCEPT !.type = ty, !.entityKey = k, !.data = d, !.position = END] :
        ty \in {ADD, UPDATE, UPSERT}, d \in KeyItems(k)}
    \cup {[NoOp EXCEPT !.type = REMOVE, !.entityKey = k, !.id = IdA]}
    \cup {[NoOp EXCEPT !.type = REPLACE, !.entityKey = k, !.items = l] :
        l \in {<<>>} \cup {<<it>> : it \in {x \in KeyItems(k) : x.id = IdZero}}}

KeyOps == UNION {KeyOpsOn(k) : k \in IndependentKeys}

KeysInit ==
    \E shape \in {PAGINATED, ARRAY}, l1 \in KeyLists, l2 \in KeyLists :
       /\ store = WriteQuery(
                     WriteQuery(EmptyStore, GET_TODOS,
                        [rk |-> TODOS, v |-> InitialValue(shape, l1, Len(l1))]),
                     GET_ARCHIVED,
                     [rk |-> ARCHIVED, v |-> InitialValue(ARRAY, l2, 0)])
       /\ entities = [k \in IndependentKeys |->
                        KeyConfig(k, IF k = TODOS THEN shape ELSE ARRAY)]
       /\ strategies = [k \in IndependentKeys |-> IF k = TODOS THEN shape ELSE ARRAY]
       /\ cacheManager = OptimisticCacheManager_new(KeyConfig(TODOS, shape))
       /\ CallIdle
       /\ TotalIdle
       /\ AsyncIdle
       /\ RefreshIdle
       /\ StrategyIdle
       /\ HandshakeIdle /\ ProviderIdle
       /\ TabIdle

KeysNext ==
    \E op \in KeyOps, f \in {"none", "writeQuery"} : EcmExecute(op, f)

SpecKeys == KeysInit /\ [][KeysNext]_vars

\* The other key's query, and what readQuery gives for a key.
OtherKey(entityKey) == IF entityKey = TODOS THEN ARCHIVED ELSE TODOS
CachedFor(s, entityKey) == ReadQuery(s, entities[entityKey].query).v

\* A step in which an add, update, upsert or replace returned true.
WroteWithoutRemove ==
    /\ lastMgr' = "ecm" /\ lastRet'
    /\ applied'.type \in {ADD, UPDATE, UPSERT, REPLACE}

\* C34 (as claimed): an add, update, upsert or replace on one key leaves the
\* denormalized query value of the other key and the registry as they were.
C34_OtherKeyValueUnchanged ==
    [][WroteWithoutRemove =>
          /\ CachedFor(store', OtherKey(applied'.entityKey))
                = CachedFor(store, OtherKey(applied'.entityKey))
          /\ entities' = entities /\ strategies' = strategies]_vars

\* C34 (amended): an add, update, upsert or replace on one key leaves the
\* other key's query entry (its list of references, its pagination and extra
\* fields) and the registry as they were, and changes the normalized records
\* of the identities in the written list only; the other key's denormalized
\* value follows those records where it refers to them.
C34_OtherKeyEntryUnchanged ==
    [][WroteWithoutRemove =>
          /\ store'.root[entities[OtherKey(applied'.entityKey)].query]
                = store.root[entities[OtherKey(applied'.entityKey)].query]
          /\ \A i \in Ids :
                store'.recs[i] # store.recs[i] =>
                   i \in IdsOf(CachedFor(store', applied'.entityKey).data)
          /\ entities' = entities /\ strategies' = strategies]_vars

\* An update on todos gave the item of identity 'a' the new title, and the
\* archived list, on which no operation carries that title, reads it too.
C34_Witness ==
    /\ lastMgr = "ecm" /\ lastRet
    /\ applied.type = UPDATE /\ applied.entityKey = TODOS
    /\ applied.data = [id |-> IdA, title |-> "t2"]
    /\ \E n \in 1..Len(CachedFor(store, ARCHIVED).data) :
          CachedFor(store, ARCHIVED).data[n] = [id |-> IdA, title |-> "t2"]

\* ------------------------------------- the provider's registry (SpecProvider)
\* One EntityCacheProvider with one consumer (useEntityCache) below it.  The
\* caller passes a cache manager (prop "given") or none; managers are numbered:
\* 0 is the caller's, 1..MaxManagers are the ones the provider creates.
GivenMgr == 0
NullRef == -1
Managers == 0..MaxManagers

notProviderVars == <<entities, strategies, cacheManager, callVars, totalVars,
                     asyncVars, refreshVars, tabVars, strategyVars, handshakeVars>>

\* new EntityCacheManager(apolloClient): both maps empty.
EmptyRegistry ==
    [entities |-> [k \in EntityKeys |-> NoConfig],
     strategies |-> [k \in EntityKeys |-> NoStrategy]]

\* destroy(): both maps of the manager are cleared.
EntityCacheManager_destroy(registry) ==
    [entities |-> [k \in DOMAIN registry.entities |-> NoConfig],
     strategies |-> [k \in DOMAIN registry.strategies |-> NoStrategy]]

\* The consumer's registration: useMemo(() => cacheManager.registerEntity(..)),
\* run when the manager it got from the context is another one.
useEntityCache_register(registry) ==
    LET r == EntityCacheManager_registerEntity(registry.entities, registry.strategies,
                                               TODOS, TodosConfig(PAGINATED, TODO))
    IN [entities |-> r.entities, strategies |-> r.strategies]

\* The memo function of the provider: the given manager, or the one in the
\* ref, created first when the ref is null (cacheManagerRef.current ??= ..).
EntityCacheProvider_useMemo(prop, ref, created) ==
    IF prop = "given" THEN [mgr |-> GivenMgr, ref |-> ref, created |-> created]
    ELSE IF ref = NullRef
         THEN [mgr |-> created + 1, ref |-> created + 1, created |-> created + 1]
         ELSE [mgr |-> ref, ref |-> ref, created |-> created]

\* The effect's cleanup, with the prop value its closure holds; at says when
\* it runs.
EntityCacheProvider_cleanup(p, at) ==
    IF p.ref # NullRef /\ p.closure = "none"
    THEN [p EXCEPT !.registry[p.ref] = EntityCacheManager_destroy(@),
                   !.destroyedAt[p.ref] = at,
                   !.ref = NullRef]
    ELSE p

ProviderInit ==
    /\ provider = [mounted |-> FALSE, prop |-> "none", closure |-> "none",
                   ref |-> NullRef, context |-> NullRef, created |-> 0,
                   registry |-> [m \in Managers |-> EmptyRegistry],
                   destroyedAt |-> [m \in Managers |-> "never"],
                   invoked |-> "none"]
    /\ store = WriteQuery(EmptyStore, GET_TODOS,
                 [rk |-> TODOS,
                  v |-> InitialValue(PAGINATED, <<[id |-> IdA, title |-> "t1"]>>, 1)])
    /\ entities = [k \in EntityKeys |-> NoConfig]
    /\ strategies = [k \in EntityKeys |-> NoStrategy]
    /\ cacheManager = OptimisticCacheManager_new(TodosConfig(PAGINATED, TODO))
    /\ CallIdle
    /\ TotalIdle
    /\ AsyncIdle
    /\ RefreshIdle
    /\ StrategyIdle
    /\ HandshakeIdle
    /\ TabIdle

\* A provider instance mounts: first render (memo, then the consumer's
\* registration), then the effect is set up with the prop of that render.
ProviderMount(prop) ==
    /\ ~provider.mounted
    /\ \E m \in {EntityCacheProvider_useMemo(prop, NullRef, provider.created)} :
       /\ m.created <= MaxManagers
       /\ provider' = [provider EXCEPT
                          !.mounted = TRUE, !.prop = prop, !.closure = prop,
                          !.ref = m.ref, !.created = m.created, !.context = m.mgr,
                          !.registry[m.mgr] = useEntityCache_register(@),
                          !.invoked = "none"]
    /\ UNCHANGED <<store, notProviderVars>>

\* The provider renders again with the props the caller passes now: the memo
\* is recomputed when apolloClient or providedCacheManager changed, the
\* consumer registers when it gets another manager, and when
\* providedCacheManager changed the effect's cleanup runs (with the closure of
\* the previous render) before the effect is set up again.
ProviderRender(prop, clientChanged) ==
    /\ provider.mounted
    /\ \E m \in {IF prop # provider.prop \/ clientChanged
                  THEN EntityCacheProvider_useMemo(prop, provider.ref, provider.created)
                  ELSE [mgr |-> provider.context, ref |-> provider.ref,
                        created |-> provider.created]} :
       /\ m.created <= MaxManagers
       /\ \E rendered \in {[provider EXCEPT
                                !.prop = prop, !.ref = m.ref, !.created = m.created,
                                !.context = m.mgr,
                                !.registry[m.mgr] =
                                    IF m.mgr # provider.context
                                    THEN useEntityCache_register(@) ELSE @,
                                !.invoked = "none"]} :
            provider' = IF prop # provider.prop
                        THEN [EntityCacheProvider_cleanup(rendered, "cleanup")
                                 EXCEPT !.closure = prop]
                        ELSE rendered
    /\ UNCHANGED <<store, notProviderVars>>

\* React runs the effect's cleanup and its setup again on the mounted
\* provider, keeping its state (refs and memos) and rendering nothing: strict
\* effects, or the subtree being hidden and shown again.
ProviderEffectRemount ==
    /\ provider.mounted
    /\ provider' = [EntityCacheProvider_cleanup(provider, "cleanup")
                       EXCEPT !.invoked = "none"]
    /\ UNCHANGED <<store, notProviderVars>>

\* The provider unmounts: the effect's cleanup runs for the last time.
ProviderUnmount ==
    /\ provider.mounted
    /\ provider' = [EntityCacheProvider_cleanup(provider, "unmount")
                       EXCEPT !.mounted = FALSE, !.context = NullRef,
                              !.invoked = "none"]
    /\ UNCHANGED <<store, notProviderVars>>

\* The consumer invokes an operation on the manager it got from the context.
ConsumerInvoke(operation) ==
    /\ provider.mounted
    /\ \E r \in {EntityCacheManager_executeOperation(
                     provider.registry[provider.context].entities,
                     provider.registry[provider.context].strategies,
                     store, operation, "none")} :
       /\ store' = r.store
       /\ provider' = [provider EXCEPT !.invoked = BooleanResult(r)]
    /\ UNCHANGED notProviderVars

ProviderOps ==
    {[NoOp EXCEPT !.type = UPDATE, !.entityKey = TODOS,
                  !.data = [id |-> IdA, title |-> t]] : t \in Titles}

ProviderNext ==
    \/ \E prop \in {"none", "given"} : ProviderMount(prop)
    \/ \E prop \in {"none", "given"}, clientChanged \in BOOLEAN :
          ProviderRender(prop, clientChanged)
    \/ ProviderEffectRemount
    \/ ProviderUnmount
    \/ \E op \in ProviderOps : ConsumerInvoke(op)

SpecProvider == ProviderInit /\ [][ProviderNext]_vars

\* C36 (as claimed): the provider never destroys the manager the caller
\* passed, destroys a manager it created at its unmount only, and while the
\* provider is mounted the manager it hands to its consumer holds the
\* consumer's registration, so that no operation the consumer invokes on a
\* provider-created manager finds its entity key unregistered.
C36_DestroyOwnAtTeardownOnly ==
    /\ provider.destroyedAt[GivenMgr] = "never"
    /\ \A m \in 1..MaxManagers : provider.destroyedAt[m] \in {"never", "unmount"}
    /\ (provider.mounted /\ provider.context # GivenMgr) =>
          /\ provider.registry[provider.context].entities[TODOS] # NoConfig
          /\ provider.invoked # "false"

====
